---- MODULE Spec2Model ----
(***************************************************************************)
(* Verification model of the NL2KQL multi-RAG workflow orchestrator        *)
(* (app/multi_rag_workflow.py), its callers (app/nlp2kql.py, app/main.py)  *)
(* and the similarity index it populates (app/vector_store.py).            *)
(*                                                                         *)
(* The orchestrator is the module-level singleton multi_rag_workflow.     *)
(* It holds no lock.  Generate and feedback requests run on worker        *)
(* threads.  initialize_workflow is a coroutine without an await: two     *)
(* calls on one event loop run one after the other, and calls interleave  *)
(* when they are driven from different threads or event loops.  Every     *)
(* call is therefore modelled as a sequence of steps of its own, one step *)
(* per statement that reads or writes shared state (the _initialized      *)
(* flag, the index) or calls an external service, and the steps of        *)
(* different calls interleave freely.                                     *)
(***************************************************************************)
EXTENDS Naturals, Sequences, FiniteSets, TLC

\* ------------------------------------------------------------------ bounds
\* Number of callers that may have an initialize call in flight.
NumInitCallers == 2

InitCallers == 1..NumInitCallers

\* The worker thread whose generate requests are followed.  Requests share
\* no state with one another: each only reads the flag and the index.
GenThreads == {"worker"}

\* ------------------------------------------------------- program constants
\* The fixed seed ground-truth pairs of _add_ground_truth_examples.
NumSeeds == 5

VARIABLES
    initialized,   \* MultiRAGWorkflow._initialized
    store,         \* the four collections of VectorStore
    ini,           \* one record per initialize caller
    gen,           \* one record per generate thread
    fb_raised,     \* an add_feedback call has raised to its caller
    val,           \* a query, and what KQLValidator.validate_and_correct made of it
    cx,            \* a query, and its get_query_complexity_score report
    ref            \* the candidates of a request, and SchemaRefiner's refined context

\* The variables of the components that hold no state of their own: the
\* arguments and the results of their calls.
fn_vars == <<val, cx, ref>>

vars == <<initialized, store, ini, gen, fb_raised, val, cx, ref>>

\* ------------------------------------------------------------ the index
\* A collection is the set of record ids it holds; the ground-truth
\* collection maps the id ground_truth_<i> to the pair stored under it.
Families == {"field_descriptions", "field_values", "schemas", "ground_truth_pairs"}

GroundTruthIds == 0..(NumSeeds - 1)

EmptyStore ==
    [field_descriptions |-> {}, field_values |-> {}, schemas |-> {},
     ground_truth_pairs |-> [i \in GroundTruthIds |-> "none"]]

\* VectorStore.get_collection_stats: the count of every collection.
get_collection_stats(s) ==
    [field_descriptions |-> Cardinality(s.field_descriptions),
     field_values |-> Cardinality(s.field_values),
     schemas |-> Cardinality(s.schemas),
     ground_truth_pairs |->
        Cardinality({i \in GroundTruthIds : s.ground_truth_pairs[i] # "none"})]

\* collection.add: a record whose id is already stored is not stored again
\* and does not replace the stored one.
CollectionAdd(existing, ids) == existing \cup ids

\* VectorStore.add_ground_truth_pairs: pair number i of the batch gets the
\* id ground_truth_<i>, whatever the collection already holds.
add_ground_truth_pairs(gt, pairs) ==
    [i \in GroundTruthIds |->
        IF i + 1 <= Len(pairs) /\ gt[i] = "none" THEN pairs[i + 1] ELSE gt[i]]

\* The batch of _add_ground_truth_examples.
ground_truth_examples == [i \in 1..NumSeeds |-> "seed"]

\* ------------------------------------------------- schema discovery
\* What discovery and per-table processing (lines 40-95) hand to the
\* population steps: three empty lists (no table had columns; discovery and
\* schema extraction swallow their own errors), or three non-empty lists.
Discoveries == {"nothing", "tables"}

all_field_descriptions(d) == IF d = "tables" THEN {"field_T_F_0"} ELSE {}
all_field_values(d) == IF d = "tables" THEN {"values_T_F_0"} ELSE {}
all_schemas(d) == IF d = "tables" THEN {"schema_T_0"} ELSE {}

\* ------------------------------------------------- initialize_workflow
\* pc of an initialize call: "stats" is line 34, "populate" is line 98
\* (discovery done, nothing written yet), "seeds" is line 110.
\* outcome notes, until the caller's next call, that the last one returned
\* at line 38.
IdleInit == [pc |-> "idle", force |-> FALSE, disc |-> "nothing", outcome |-> "none"]

\* The part of initialize_workflow that writes the index.
PopulationPcs == {"populate", "seeds"}

Populating == {c \in InitCallers : ini[c].pc \in PopulationPcs}

\* Line 26: the early return of an initialized orchestrator.
AlreadyInitialized(flag, force_refresh) == flag /\ ~force_refresh

\* Fault variant of the line-35 test: the force_refresh condition inverted.
AlreadyPopulatedWhenForced(stats, force_refresh) ==
    force_refresh /\ \A f \in Families : stats[f] > 0

\* Line 35: the index counts as populated when every collection is non-empty.
AlreadyPopulated(stats, force_refresh) ==
    ~force_refresh /\ \A f \in Families : stats[f] > 0

InitReturn(c, how) ==
    ini' = [ini EXCEPT ![c] = [IdleInit EXCEPT !.outcome =
               IF how = "already_populated" THEN how ELSE "none"]]

\* Fault variant of lines 119-121: the handler marks the orchestrator
\* initialized.
InitRaiseMarksReady(c) == InitReturn(c, "error") /\ initialized' = TRUE

\* Lines 119-121: any exception of the body is logged and re-raised; the flag
\* keeps its value.
InitRaise(c) == InitReturn(c, "error") /\ UNCHANGED initialized

\* Lines 24-30.
init_call(c, force_refresh) ==
    /\ ini[c].pc = "idle"
    /\ IF AlreadyInitialized(initialized, force_refresh)
       THEN InitReturn(c, "already_initialized")
       ELSE ini' = [ini EXCEPT ![c] = [IdleInit EXCEPT !.pc = "stats",
                                                      !.force = force_refresh]]
    /\ UNCHANGED <<initialized, store, gen, fb_raised, fn_vars>>

\* Lines 32-95: the stats check (ok: the counts could be read), then
\* discovery and per-table processing, which touch no shared state.
init_check_stats(c, ok, d) ==
    /\ ini[c].pc = "stats"
    /\ IF ~ok
       THEN d = "nothing" /\ InitRaise(c)
       ELSE IF AlreadyPopulated(get_collection_stats(store), ini[c].force)
            THEN /\ d = "nothing"
                 /\ initialized' = TRUE
                 /\ InitReturn(c, "already_populated")
            ELSE /\ ini' = [ini EXCEPT ![c].pc = "populate", ![c].disc = d]
                 /\ UNCHANGED initialized
    /\ UNCHANGED <<store, gen, fb_raised, fn_vars>>

\* Lines 97-107: the three adds, each skipped for an empty list; an add that
\* raises ends the call with what the earlier adds wrote left in the index.
init_populate(c, done) ==
    /\ ini[c].pc = "populate"
    /\ LET d == ini[c].disc IN
       /\ store' = [store EXCEPT
             !.field_descriptions =
                IF done >= 1 THEN CollectionAdd(@, all_field_descriptions(d)) ELSE @,
             !.field_values =
                IF done >= 2 THEN CollectionAdd(@, all_field_values(d)) ELSE @,
             !.schemas =
                IF done >= 3 THEN CollectionAdd(@, all_schemas(d)) ELSE @]
       /\ IF done = 3
          THEN /\ ini' = [ini EXCEPT ![c].pc = "seeds", ![c].disc = "nothing"]
               /\ UNCHANGED initialized
          ELSE /\ d = "tables"
               /\ InitRaise(c)
    /\ UNCHANGED <<gen, fb_raised, fn_vars>>

\* Lines 109-117: the seed pairs, the final stats and the flag.
init_seeds(c) ==
    /\ ini[c].pc = "seeds"
    /\ \/ /\ InitRaise(c)
          /\ UNCHANGED store
       \/ /\ store' = [store EXCEPT !.ground_truth_pairs =
                add_ground_truth_pairs(@, ground_truth_examples)]
          /\ \/ InitRaise(c)
             \/ /\ initialized' = TRUE
                /\ InitReturn(c, "completed")
    /\ UNCHANGED <<gen, fb_raised, fn_vars>>

\* ------------------------------------------------ generate requests
\* The four similarity lookups of lines 175-178, in the order of the code.
Lookups == <<"search_relevant_fields", "search_relevant_values",
             "search_relevant_schemas", "search_similar_queries">>

LookupSet == {Lookups[i] : i \in 1..Len(Lookups)}

\* The stages a request completes on the path of lines 170-218, in order.
ReadyStages == Lookups \o <<"refine_context", "build_enhanced_context",
                            "generation_service", "validate_and_correct",
                            "get_query_complexity_score">>

\* The stages a request completes in _fallback_generation (lines 340-343).
FallbackStages == <<"fallback_generation_service", "validate_and_correct",
                    "get_query_complexity_score">>

\* The stages of the use_rag = False branch of nl_to_kql_detailed.
BasicStages == <<"basic_generation_service", "validate_and_correct",
                 "get_query_complexity_score">>

NoResult ==
    [kql_query |-> "none", is_valid |-> FALSE, warnings |-> "none",
     context_used |-> "none", rag_workflow_used |-> FALSE]

\* Lines 202-215.
RagResult(is_valid) ==
    [kql_query |-> "corrected_kql", is_valid |-> is_valid,
     warnings |-> "validator_warnings", context_used |-> "counts",
     rag_workflow_used |-> TRUE]

\* Lines 345-358 (and nlp2kql.py lines 68-81): every count is 0.
FallbackResult(is_valid) ==
    [kql_query |-> "corrected_kql", is_valid |-> is_valid,
     warnings |-> "validator_warnings", context_used |-> "zero_counts",
     rag_workflow_used |-> FALSE]

\* Fault variant of the placeholder: the failure reason is not reported.
PlaceholderWithoutReason ==
    [kql_query |-> "error_comment", is_valid |-> FALSE,
     warnings |-> "none", context_used |-> "empty",
     rag_workflow_used |-> FALSE]

\* Lines 361-369 (and nlp2kql.py lines 85-93): context_used is {}.
PlaceholderResult ==
    [kql_query |-> "error_comment", is_valid |-> FALSE,
     warnings |-> "generation_failed_reason", context_used |-> "empty",
     rag_workflow_used |-> FALSE]

IdleGen ==
    [pc |-> "idle", use_rag |-> TRUE, ready |-> FALSE, prev_degraded |-> FALSE,
     trace |-> <<>>, errors |-> <<>>, gen_calls |-> 0, result |-> NoResult,
     escaped |-> {}]

\* Fault variant of the line-166 test: the flag is not consulted.
IsReadyUnchecked(flag) == TRUE

\* Line 166: the request takes the path of lines 170-218 iff the flag is set.
IsReady(flag) == flag

\* Fault variant of the handlers: line 359 re-raises instead of answering.
ExceptHandlerFallbackRaises(where) ==
    CASE where = "ready_path" -> "fallback"
      [] where = "generate_with_context" -> "retry"
      [] where = "fallback" -> "raise"
      [] where = "detailed" -> "placeholder"
      [] where = "add_feedback" -> "log"

\* Fault variant of the handlers: line 359 calls the Generation Service
\* again instead of answering.
ExceptHandlerFallbackRetries(where) ==
    CASE where = "ready_path" -> "fallback"
      [] where = "generate_with_context" -> "retry"
      [] where = "fallback" -> "retry"
      [] where = "detailed" -> "placeholder"
      [] where = "add_feedback" -> "log"

\* The except clauses: line 220 (around lines 171-218), line 331 (around the
\* chat-completions call of _generate_kql_with_context), line 359 (around
\* _fallback_generation's body), nlp2kql.py line 83 (around both branches of
\* nl_to_kql_detailed), line 399 (around add_feedback's write).  Each names
\* where an exception raised under it goes.
ExceptHandler(where) ==
    CASE where = "ready_path" -> "fallback"
      [] where = "generate_with_context" -> "retry"
      [] where = "fallback" -> "placeholder"
      [] where = "detailed" -> "placeholder"
      [] where = "add_feedback" -> "log"

\* Fault variant: the handler of line 220 marks the orchestrator
\* uninitialized.
FlagClearedOnError(flag) == FALSE

\* No handler of a generate request writes the flag.
FlagAfterError(flag) == flag

\* A request degraded from the path of lines 170-218 to _fallback_generation.
Degraded(r) == r.pc = "done" /\ r.use_rag /\ r.ready /\ ~r.result.rag_workflow_used

\* nl_to_kql_detailed (lines 51-58, 59-64) entering generate_kql_with_rag
\* (lines 165-171) or its own basic branch.
gen_request(g, use_rag) ==
    /\ gen[g].pc \in {"idle", "done"}
    /\ gen' = [gen EXCEPT ![g] =
          [IdleGen EXCEPT
             !.use_rag = use_rag,
             !.ready = use_rag /\ initialized,
             !.prev_degraded = Degraded(gen[g]),
             !.pc = IF ~use_rag THEN "basic"
                    ELSE IF IsReady(initialized) THEN Lookups[1]
                    ELSE "fallback"]]
    /\ UNCHANGED <<initialized, store, ini, fb_raised, fn_vars>>

\* An exception escapes generate_kql_with_rag: nl_to_kql_detailed's handler
\* answers.
Escape(r) ==
    [r EXCEPT !.pc = "done",
              !.escaped = @ \cup {"generate_kql_with_rag"} \cup
                  (IF ExceptHandler("detailed") = "placeholder"
                   THEN {} ELSE {"nl_to_kql_detailed"}),
              !.result = IF ExceptHandler("detailed") = "placeholder"
                         THEN PlaceholderResult ELSE NoResult]

\* A stage of lines 171-192 raises to line 220.
ReadyPathError(r, stage) ==
    LET e == [r EXCEPT !.errors = Append(@, stage)] IN
    IF ExceptHandler("ready_path") = "fallback"
    THEN [e EXCEPT !.pc = "fallback"]
    ELSE Escape(e)

\* Lines 175-178: one lookup.
gen_search(g, ok) ==
    /\ gen[g].pc \in LookupSet
    /\ LET i == CHOOSE k \in 1..Len(Lookups) : Lookups[k] = gen[g].pc IN
       IF ok
       THEN /\ gen' = [gen EXCEPT ![g].trace = Append(@, Lookups[i]),
                                  ![g].pc = IF i < Len(Lookups) THEN Lookups[i + 1]
                                            ELSE "refine"]
            /\ UNCHANGED initialized
       ELSE /\ gen' = [gen EXCEPT ![g] = ReadyPathError(@, Lookups[i])]
            /\ initialized' = FlagAfterError(initialized)
    /\ UNCHANGED <<store, ini, fb_raised, fn_vars>>

\* Lines 183-191: refine_context, then _build_enhanced_context; neither
\* guards against a record without the expected keys.
gen_refine(g, ok) ==
    /\ gen[g].pc = "refine"
    /\ IF ok
       THEN /\ gen' = [gen EXCEPT
                  ![g].trace = @ \o <<"refine_context", "build_enhanced_context">>,
                  ![g].pc = "generate"]
            /\ UNCHANGED initialized
       ELSE /\ gen' = [gen EXCEPT ![g] = ReadyPathError(@, "refine_context")]
            /\ initialized' = FlagAfterError(initialized)
    /\ UNCHANGED <<store, ini, fb_raised, fn_vars>>

\* Lines 194-218: the generated text is validated, scored and returned.
ReadyPathReturn(r, is_valid) ==
    [r EXCEPT !.trace = @ \o <<"generation_service", "validate_and_correct",
                               "get_query_complexity_score">>,
              !.result = RagResult(is_valid),
              !.pc = "done"]

\* Line 192, _generate_kql_with_context lines 274-329: the chat-completions
\* call with the enhanced context.
gen_generate(g, ok, is_valid) ==
    /\ gen[g].pc = "generate"
    /\ LET r == [gen[g] EXCEPT !.gen_calls = @ + 1] IN
       IF ok
       THEN /\ gen' = [gen EXCEPT ![g] = ReadyPathReturn(r, is_valid)]
            /\ UNCHANGED initialized
       ELSE /\ is_valid = FALSE
            /\ IF ExceptHandler("generate_with_context") = "retry"
               THEN /\ gen' = [gen EXCEPT ![g] =
                          [r EXCEPT !.pc = "retry",
                                    !.errors = Append(@, "generation_service")]]
                    /\ UNCHANGED initialized
               ELSE /\ gen' = [gen EXCEPT ![g] =
                          ReadyPathError(r, "generation_service")]
                    /\ initialized' = FlagAfterError(initialized)
    /\ UNCHANGED <<store, ini, fb_raised, fn_vars>>

\* Line 334: get_kql_from_nl with the enhanced context, inside the handler
\* of _generate_kql_with_context; what it raises reaches line 220.
gen_retry(g, ok, is_valid) ==
    /\ gen[g].pc = "retry"
    /\ LET r == [gen[g] EXCEPT !.gen_calls = @ + 1] IN
       IF ok
       THEN /\ gen' = [gen EXCEPT ![g] = ReadyPathReturn(r, is_valid)]
            /\ UNCHANGED initialized
       ELSE /\ is_valid = FALSE
            /\ gen' = [gen EXCEPT ![g] =
                  ReadyPathError(r, "generation_service_retry")]
            /\ initialized' = FlagAfterError(initialized)
    /\ UNCHANGED <<store, ini, fb_raised, fn_vars>>

\* _fallback_generation, lines 336-369.
gen_fallback(g, ok, is_valid) ==
    /\ gen[g].pc = "fallback"
    /\ LET r == [gen[g] EXCEPT !.gen_calls = @ + 1] IN
       IF ok
       THEN gen' = [gen EXCEPT ![g] =
               [r EXCEPT !.trace = @ \o FallbackStages,
                         !.result = FallbackResult(is_valid),
                         !.pc = "done"]]
       ELSE /\ is_valid = FALSE
            /\ gen' = [gen EXCEPT ![g] =
                  LET e == [r EXCEPT
                              !.errors = Append(@, "fallback_generation_service")] IN
                  CASE ExceptHandler("fallback") = "placeholder" ->
                          [e EXCEPT !.pc = "done", !.result = PlaceholderResult]
                    [] ExceptHandler("fallback") = "retry" ->
                          [e EXCEPT !.pc = "fallback"]
                    [] OTHER -> Escape(e)]
    /\ UNCHANGED <<initialized, store, ini, fb_raised, fn_vars>>

\* nl_to_kql_detailed with use_rag = False, nlp2kql.py lines 59-93.
gen_basic(g, ok, is_valid) ==
    /\ gen[g].pc = "basic"
    /\ LET r == [gen[g] EXCEPT !.gen_calls = @ + 1] IN
       IF ok
       THEN gen' = [gen EXCEPT ![g] =
               [r EXCEPT !.trace = @ \o BasicStages,
                         !.result = FallbackResult(is_valid),
                         !.pc = "done"]]
       ELSE /\ is_valid = FALSE
            /\ gen' = [gen EXCEPT ![g] =
                  LET e == [r EXCEPT
                              !.errors = Append(@, "basic_generation_service")] IN
                  IF ExceptHandler("detailed") = "placeholder"
                  THEN [e EXCEPT !.pc = "done", !.result = PlaceholderResult]
                  ELSE [e EXCEPT !.pc = "done", !.result = NoResult,
                                 !.escaped = @ \cup {"nl_to_kql_detailed"}]]
    /\ UNCHANGED <<initialized, store, ini, fb_raised, fn_vars>>

\* ------------------------------------------------------- add_feedback
\* Text is a sequence of characters, so that str.lower() is a conversion.
UpperCase == <<"A","B","C","D","E","F","G","H","I","J","K","L","M",
               "N","O","P","Q","R","S","T","U","V","W","X","Y","Z">>
LowerCase == <<"a","b","c","d","e","f","g","h","i","j","k","l","m",
               "n","o","p","q","r","s","t","u","v","w","x","y","z">>

LowerChar(ch) ==
    IF \E i \in 1..Len(UpperCase) : UpperCase[i] = ch
    THEN LowerCase[CHOOSE i \in 1..Len(UpperCase) : UpperCase[i] = ch]
    ELSE ch

\* str.lower()
Lower(text) == [i \in 1..Len(text) |-> LowerChar(text[i])]

\* Line 390: the labels that make a feedback a ground-truth pair.
ApprovingLabels == {<<"g","o","o","d">>, <<"c","o","r","r","e","c","t">>,
                    <<"a","c","c","u","r","a","t","e">>}

\* The feedback labels callers send.
FeedbackLabels == {<<"g","o","o","d">>, <<"G","o","o","d">>,
                   <<"C","O","R","R","E","C","T">>,
                   <<"a","c","c","u","r","a","t","e">>,
                   <<"g","o","o","d","!">>, <<"b","a","d">>,
                   <<"n","o","t"," ","g","o","o","d">>, <<>>}

\* The corrected_kql arguments callers send: None (the default), the empty
\* text, a query.
CorrectedQueries == {"None", "", "SecurityEvent | take 10"}

\* Python truthiness of an Optional[str].
Truthy(text) == text \notin {"None", ""}

\* Fault variant of the line-390 test: corrected_kql is not required.
FeedbackAcceptedWithoutQuery(user_feedback, corrected_kql) ==
    Lower(user_feedback) \in ApprovingLabels

\* Line 390.
FeedbackAccepted(user_feedback, corrected_kql) ==
    Truthy(corrected_kql) /\ Lower(user_feedback) \in ApprovingLabels

\* Lines 387-400.  The write may raise (embedding or collection error); the
\* handler of line 399 logs it.
add_feedback(user_feedback, corrected_kql) ==
    /\ IF FeedbackAccepted(user_feedback, corrected_kql)
       THEN \/ /\ store' = [store EXCEPT !.ground_truth_pairs =
                     add_ground_truth_pairs(@, <<"feedback">>)]
               /\ UNCHANGED fb_raised
            \/ /\ fb_raised' = (fb_raised \/ ExceptHandler("add_feedback") # "log")
               /\ UNCHANGED store
       ELSE UNCHANGED <<store, fb_raised>>
    /\ UNCHANGED <<initialized, ini, gen, fn_vars>>

\* ------------------------------------------------------------- text
\* Query text is a string; SubSeq, Len and \o are Python's slicing, len and +.
Whitespace == {" ", "\t", "\n"}

Digits == {"0", "1", "2", "3", "4", "5", "6", "7", "8", "9"}

Letters == {UpperCase[i] : i \in 1..Len(UpperCase)} \cup
           {LowerCase[i] : i \in 1..Len(LowerCase)}

\* The class \w of the re module, over ASCII.
WordChars == Letters \cup Digits \cup {"_"}

\* s[i - 1] of Python, "" past the end.
CharAt(s, i) == IF i >= 1 /\ i <= Len(s) THEN SubSeq(s, i, i) ELSE ""

\* s[:n] of Python.
Prefix(s, n) == SubSeq(s, 1, IF Len(s) < n THEN Len(s) ELSE n)

\* s[i - 1:] of Python.
From(s, i) == SubSeq(s, i, Len(s))

\* The least and the greatest element of a non-empty set of numbers.
Least(S) == CHOOSE k \in S : \A h \in S : k <= h

Greatest(S) == CHOOSE k \in S : \A h \in S : h <= k

RECURSIVE LowerBetween(_, _, _)
\* s[a - 1:b].lower(), by halves.
LowerBetween(s, a, b) ==
    IF a > b THEN ""
    ELSE IF a = b THEN LowerChar(CharAt(s, a))
    ELSE LET mid == (a + b) \div 2 IN
         LowerBetween(s, a, mid) \o LowerBetween(s, mid + 1, b)

\* str.lower()
str_lower(s) == LowerBetween(s, 1, Len(s))

\* str.startswith, at position i.
StartsWithAt(s, i, prefix) ==
    /\ i + Len(prefix) - 1 <= Len(s)
    /\ SubSeq(s, i, i + Len(prefix) - 1) = prefix

startswith(s, prefix) == StartsWithAt(s, 1, prefix)

endswith(s, suffix) ==
    /\ Len(suffix) <= Len(s)
    /\ SubSeq(s, Len(s) - Len(suffix) + 1, Len(s)) = suffix

\* str.find from position i: the least position of sub at or after i, 0 if
\* there is none.
Find(s, sub, i) ==
    LET hits == {k \in i..(Len(s) - Len(sub) + 1) : StartsWithAt(s, k, sub)} IN
    IF hits = {} THEN 0 ELSE Least(hits)

\* sub in s
Contains(s, sub) == Find(s, sub, 1) # 0

RECURSIVE CountFrom(_, _, _)
CountFrom(s, sub, i) ==
    LET k == Find(s, sub, i) IN
    IF k = 0 THEN 0 ELSE 1 + CountFrom(s, sub, k + Len(sub))

\* str.count: the number of non-overlapping occurrences, found left to right.
str_count(s, sub) == CountFrom(s, sub, 1)

\* The end of the run of characters of class cls that starts at i: the
\* position after its last character (i itself for an empty run).
RunEnd(s, i, cls) ==
    Least({j \in i..(Len(s) + 1) : CharAt(s, j) \notin cls})

\* The start of the run of characters of class cls that ends at i: the
\* position before its first character.
RunStartBack(s, i, cls) ==
    Greatest({j \in 0..i : CharAt(s, j) \notin cls})

\* str.strip()
strip(s) ==
    LET a == RunEnd(s, 1, Whitespace)
        b == RunStartBack(s, Len(s), Whitespace)
    IN IF a > b THEN "" ELSE SubSeq(s, a, b)

RECURSIVE split(_, _)
\* str.split(sep)
split(s, sep) ==
    LET k == Find(s, sep, 1) IN
    IF k = 0 THEN <<s>>
    ELSE <<SubSeq(s, 1, k - 1)>> \o split(From(s, k + Len(sep)), sep)

RECURSIVE join(_, _)
\* sep.join(parts)
join(sep, parts) ==
    IF parts = <<>> THEN ""
    ELSE IF Len(parts) = 1 THEN parts[1]
    ELSE parts[1] \o sep \o join(sep, Tail(parts))

\* str.replace(old, new, 1)
replace_first(s, old, new) ==
    LET k == Find(s, old, 1) IN
    IF k = 0 THEN s
    ELSE SubSeq(s, 1, k - 1) \o new \o From(s, k + Len(old))

\* The text with every match replaced: ends[i] is the position after the
\* match that starts at i (0: no match at i), repls[i] what replaces it.
RECURSIVE SubFrom(_, _, _, _)
SubFrom(s, i, ends, repls) ==
    LET starts == {k \in i..Len(s) : ends[k] # 0} IN
    IF starts = {} THEN From(s, i)
    ELSE LET k == Least(starts) IN
         SubSeq(s, i, k - 1) \o repls[k] \o SubFrom(s, ends[k], ends, repls)

\* re.sub of a pattern that matches no empty text: MatchEnd(s, i) is the
\* position after the match at i (0: no match at i), Repl(s, i, e) replaces
\* it.  The matches are the leftmost non-overlapping ones of the text as it
\* was.
re_sub(s, MatchEnd(_, _), Repl(_, _, _)) ==
    LET ends == [i \in 1..Len(s) |-> MatchEnd(s, i)]
        repls == [i \in 1..Len(s) |->
                     IF ends[i] = 0 THEN "" ELSE Repl(s, i, ends[i])]
    IN SubFrom(s, 1, ends, repls)

\* re.search
re_search(s, MatchEnd(_, _)) == \E i \in 1..Len(s) : MatchEnd(s, i) # 0

\* ----------------------------------------------------- KQLValidator
\* self.kql_operators
kql_operators ==
    {"where", "project", "extend", "summarize", "order", "sort", "take", "limit",
     "join", "union", "distinct", "top", "sample", "render", "let", "datatable"}

\* self.common_tables, in the order of the source text.  The attribute is a
\* set: list(self.common_tables) lists it in an order that the string hash
\* seed of the process decides.
common_tables ==
    <<"SecurityEvent", "Syslog", "Event", "Heartbeat", "Perf", "Alert",
      "AzureActivity", "SigninLogs", "AuditLogs", "AppServiceHTTPLogs",
      "ContainerLog", "KubeEvents", "InsightsMetrics", "VMConnection",
      "SecurityAlert", "SecurityIncident", "ThreatIntelligenceIndicator",
      "Usage", "Operation", "ConfigurationChange", "ConfigurationData">>

\* The elements of a list.
Elements(list) == {list[i] : i \in 1..Len(list)}

\* The grave accent of Markdown; a TLA+ string cannot hold the character
\* itself, so the model's texts write it as a tilde, which no rule of the
\* validator looks at.
Backtick == "~"

\* The fence marker of a Markdown code block.
Fence == Backtick \o Backtick \o Backtick

\* A position is the start of a line (^ under re.MULTILINE).
LineStart(s, i) == i = 1 \/ CharAt(s, i - 1) = "\n"

\* A position is the end of a line ($ under re.MULTILINE).
LineEnd(s, i) == i = Len(s) + 1 \/ CharAt(s, i) = "\n"

\* ^<fence>(?:kusto|kql)?\s*\n?  at position i.
OpeningFenceEnd(s, i) ==
    IF ~(LineStart(s, i) /\ StartsWithAt(s, i, Fence)) THEN 0
    ELSE LET j == IF StartsWithAt(s, i + 3, "kusto") THEN i + 8
                  ELSE IF StartsWithAt(s, i + 3, "kql") THEN i + 6
                  ELSE i + 3
         IN RunEnd(s, j, Whitespace)

\* \n?<fence>\s*$  at position i: \s* gives back what it must to end at the end
\* of a line.
ClosingFenceEnd(s, i) ==
    LET a == IF CharAt(s, i) = "\n" THEN i + 1 ELSE i IN
    IF ~StartsWithAt(s, a, Fence) THEN 0
    ELSE LET r == RunEnd(s, a + 3, Whitespace)
             ends == {e \in (a + 3)..r : LineEnd(s, e)}
         IN IF ends = {} THEN 0 ELSE Greatest(ends)

Removed(s, i, e) == ""

\* ^<backtick>([^<backtick>]+)<backtick>$ replaced by its group.
InlineCode(s) ==
    IF /\ Len(s) >= 3
       /\ CharAt(s, 1) = Backtick
       /\ CharAt(s, Len(s)) = Backtick
       /\ ~Contains(SubSeq(s, 2, Len(s) - 1), Backtick)
    THEN SubSeq(s, 2, Len(s) - 1)
    ELSE s

\* Lines 74-83.
remove_markdown(query) ==
    LET a == re_sub(query, OpeningFenceEnd, Removed)
        b == re_sub(a, ClosingFenceEnd, Removed)
    IN strip(InlineCode(strip(b)))

\* any(op in line.lower() for op in self.kql_operators)
MentionsOperator(line) ==
    LET l == str_lower(line) IN \E op \in kql_operators : Contains(l, op)

\* Lines 99-116: the lines from number i on (i - 1 is the index of
\* enumerate), with what they add to the corrected lines and the warnings.
RECURSIVE SyntaxLines(_, _, _)
SyntaxLines(lines, i, acc) ==
    IF i > Len(lines) THEN acc
    ELSE LET line == strip(lines[i]) IN
         IF line = "" THEN SyntaxLines(lines, i + 1, acc)
         ELSE IF i = 1 /\ startswith(line, "|")
         THEN SyntaxLines(lines, i + 1,
                 [lines |-> Append(acc.lines, strip(From(line, 2))),
                  warnings |-> Append(acc.warnings,
                     "Removed unnecessary pipe at beginning of query")])
         ELSE IF /\ i > 1
                 /\ ~startswith(line, "|")
                 /\ ~startswith(line, "//")
                 /\ MentionsOperator(line)
         THEN LET piped == "| " \o line IN
              SyntaxLines(lines, i + 1,
                 [lines |-> Append(acc.lines, piped),
                  warnings |-> Append(acc.warnings,
                     "Added missing pipe before '" \o Prefix(piped, 20) \o "...'")])
         ELSE SyntaxLines(lines, i + 1,
                 [lines |-> Append(acc.lines, line), warnings |-> acc.warnings])

\* Lines 85-120.
check_basic_syntax(query) ==
    LET semi == endswith(query, ";")
        corrected == IF semi THEN SubSeq(query, 1, Len(query) - 1) ELSE query
        w == IF semi THEN <<"Removed unnecessary semicolon at end of query">>
             ELSE <<>>
        r == SyntaxLines(split(corrected, "\n"), 1, [lines |-> <<>>, warnings |-> w])
    IN [text |-> join("\n", r.lines), warnings |-> r.warnings]

Min2(a, b) == IF a < b THEN a ELSE b

\* Lines 198-202: the cells of current_row from column j on.
RECURSIVE LevenshteinRow(_, _, _, _, _)
LevenshteinRow(c1, s2, previous_row, current_row, j) ==
    IF j > Len(s2) THEN current_row
    ELSE LET insertions == previous_row[j + 1] + 1
             deletions == current_row[j] + 1
             substitutions == previous_row[j] + (IF c1 # CharAt(s2, j) THEN 1 ELSE 0)
         IN LevenshteinRow(c1, s2, previous_row,
               Append(current_row, Min2(Min2(insertions, deletions), substitutions)),
               j + 1)

\* Lines 196-203: the rows from character i of s1 on; a row has a cell for
\* every character of s2 and one more.
RECURSIVE LevenshteinRows(_, _, _, _)
LevenshteinRows(s1, s2, previous_row, i) ==
    IF i > Len(s1) \/ Len(previous_row) # Len(s2) + 1 THEN previous_row
    ELSE LevenshteinRows(s1, s2,
            LevenshteinRow(CharAt(s1, i), s2, previous_row, <<i>>, 1), i + 1)

\* Lines 187-205.
levenshtein_distance(s1, s2) ==
    LET a == IF Len(s1) < Len(s2) THEN s2 ELSE s1
        b == IF Len(s1) < Len(s2) THEN s1 ELSE s2
    IN IF Len(b) = 0 THEN Len(a)
       ELSE LET last == LevenshteinRows(a, b, [j \in 1..(Len(b) + 1) |-> j - 1], 1)
            IN last[Len(last)]

\* The first element of a list, in its order, that satisfies a test; "" for
\* None.
FirstThat(list, Test(_)) ==
    LET hits == {k \in 1..Len(list) : Test(list[k])} IN
    IF hits = {} THEN "" ELSE list[Least(hits)]

\* float("inf") of line 177: more than any distance that the second condition
\* of line 181 lets through.
FarApart == 3

\* Lines 176-185: the loop from candidate k on.
RECURSIVE ClosestFrom(_, _, _, _, _)
ClosestFrom(table_lower, available_tables, k, min_distance, closest_table) ==
    IF k > Len(available_tables) THEN closest_table
    ELSE LET distance ==
                levenshtein_distance(table_lower, str_lower(available_tables[k]))
         IN IF distance < min_distance /\ distance <= 2
            THEN ClosestFrom(table_lower, available_tables, k + 1, distance,
                             available_tables[k])
            ELSE ClosestFrom(table_lower, available_tables, k + 1, min_distance,
                             closest_table)

\* find_closest_table without the exact tier of lines 165-168.
find_closest_table_partial_first(table_name, available_tables) ==
    LET table_lower == str_lower(table_name)
        Partial(table) == \/ Contains(str_lower(table), table_lower)
                          \/ Contains(table_lower, str_lower(table))
    IN IF \E k \in 1..Len(available_tables) : Partial(available_tables[k])
       THEN FirstThat(available_tables, Partial)
       ELSE ClosestFrom(table_lower, available_tables, 1, FarApart, "")

\* Lines 161-185; "" for None.
find_closest_table(table_name, available_tables) ==
    LET table_lower == str_lower(table_name)
        Exact(table) == str_lower(table) = table_lower
        Partial(table) == \/ Contains(str_lower(table), table_lower)
                          \/ Contains(table_lower, str_lower(table))
    IN IF FirstThat(available_tables, Exact) # ""
       THEN FirstThat(available_tables, Exact)
       ELSE IF \E k \in 1..Len(available_tables) : Partial(available_tables[k])
       THEN FirstThat(available_tables, Partial)
       ELSE ClosestFrom(table_lower, available_tables, 1, FarApart, "")

\* ^([A-Za-z][A-Za-z0-9_]*)\s*(?:\||$) on a stripped line: the group, ""
\* when the line does not match.
TableOfLine(line) ==
    IF CharAt(line, 1) \notin Letters THEN ""
    ELSE LET e == RunEnd(line, 1, WordChars)
             f == RunEnd(line, e, Whitespace)
         IN IF f = Len(line) + 1 \/ CharAt(line, f) = "|"
            THEN SubSeq(line, 1, e - 1)
            ELSE ""

\* Lines 131-157: the lines from number i on.  available_tables is <<>> for
\* None and for the empty list; pool is list(self.common_tables).
RECURSIVE TableLines(_, _, _, _, _)
TableLines(lines, i, available_tables, pool, acc) ==
    IF i > Len(lines) THEN acc
    ELSE LET line == strip(lines[i])
             table_name == TableOfLine(line)
         IN
         IF line = "" \/ startswith(line, "//") \/ startswith(line, "|")
            \/ table_name = ""
         THEN TableLines(lines, i + 1, available_tables, pool, acc)
         ELSE IF available_tables # <<>>
         THEN IF table_name \in Elements(available_tables)
              THEN TableLines(lines, i + 1, available_tables, pool, acc)
              ELSE LET close_match == find_closest_table(table_name, available_tables)
                   IN IF close_match # ""
                      THEN TableLines(lines, i + 1, available_tables, pool,
                              [text |-> replace_first(acc.text, table_name, close_match),
                               warnings |-> Append(acc.warnings,
                                  "Corrected table name '" \o table_name \o "' to '"
                                  \o close_match \o "'")])
                      ELSE TableLines(lines, i + 1, available_tables, pool,
                              [text |-> acc.text,
                               warnings |-> Append(acc.warnings,
                                  "Table '" \o table_name \o "' not found in workspace")])
         ELSE IF table_name \in Elements(common_tables)
              THEN TableLines(lines, i + 1, available_tables, pool, acc)
              ELSE LET close_match == find_closest_table(table_name, pool)
                   IN IF close_match # ""
                      THEN TableLines(lines, i + 1, available_tables, pool,
                              [text |-> replace_first(acc.text, table_name, close_match),
                               warnings |-> Append(acc.warnings,
                                  "Suggested table name correction: '" \o table_name
                                  \o "' -> '" \o close_match \o "'")])
                      ELSE TableLines(lines, i + 1, available_tables, pool, acc)

\* Lines 122-159.
check_table_names(query, available_tables, pool) ==
    TableLines(split(query, "\n"), 1, available_tables, pool,
               [text |-> query, warnings |-> <<>>])

\* Text equality under re.IGNORECASE.
StartsWithAtCI(s, i, lowered) ==
    /\ i + Len(lowered) - 1 <= Len(s)
    /\ str_lower(SubSeq(s, i, i + Len(lowered) - 1)) = lowered

\* ago\s*\(\s*(\d+)\s*<unit>s?\s*\)  at position i ("" for the pattern
\* without a unit): the positions of the group and of the end, 0 for none.
AgoMatch(s, i, unit) ==
    LET none == [digits |-> 0, after |-> 0, end |-> 0] IN
    IF ~StartsWithAtCI(s, i, "ago") THEN none
    ELSE LET open == RunEnd(s, i + 3, Whitespace) IN
         IF CharAt(s, open) # "(" THEN none
         ELSE LET d == RunEnd(s, open + 1, Whitespace)
                  a == RunEnd(s, d, Digits)
                  u == RunEnd(s, a, Whitespace)
              IN IF a = d THEN none
                 ELSE IF unit # "" /\ ~StartsWithAtCI(s, u, unit) THEN none
                 ELSE LET v == IF unit = "" THEN u
                               ELSE IF StartsWithAtCI(s, u + Len(unit), "s")
                               THEN u + Len(unit) + 1
                               ELSE u + Len(unit)
                          close == RunEnd(s, v, Whitespace)
                      IN IF CharAt(s, close) = ")"
                         THEN [digits |-> d, after |-> a, end |-> close + 1]
                         ELSE none

AgoEndBare(s, i) == AgoMatch(s, i, "").end
AgoEndDays(s, i) == AgoMatch(s, i, "day").end
AgoEndHours(s, i) == AgoMatch(s, i, "hour").end
AgoEndMinutes(s, i) == AgoMatch(s, i, "minute").end

AgoDigits(s, i, unit) ==
    SubSeq(s, AgoMatch(s, i, unit).digits, AgoMatch(s, i, unit).after - 1)

AgoReplBare(s, i, e) == "ago(" \o AgoDigits(s, i, "") \o "d)"
AgoReplDays(s, i, e) == "ago(" \o AgoDigits(s, i, "day") \o "d)"
AgoReplHours(s, i, e) == "ago(" \o AgoDigits(s, i, "hour") \o "h)"
AgoReplMinutes(s, i, e) == "ago(" \o AgoDigits(s, i, "minute") \o "m)"

\* Lines 220-223: one pattern of time_patterns.
TimePattern(r, MatchEnd(_, _), Repl(_, _, _)) ==
    IF re_search(r.text, MatchEnd)
    THEN [text |-> re_sub(r.text, MatchEnd, Repl),
          warnings |-> Append(r.warnings, "Corrected time filter format")]
    ELSE r

\* Lines 207-229.
check_time_filters(query) ==
    LET p1 == TimePattern([text |-> query, warnings |-> <<>>], AgoEndBare, AgoReplBare)
        p2 == TimePattern(p1, AgoEndDays, AgoReplDays)
        p3 == TimePattern(p2, AgoEndHours, AgoReplHours)
        p4 == TimePattern(p3, AgoEndMinutes, AgoReplMinutes)
    IN IF ~Contains(p4.text, "TimeGenerated") /\ ~Contains(str_lower(p4.text), "ago(")
       THEN [text |-> p4.text,
             warnings |-> Append(p4.warnings,
                "Consider adding a TimeGenerated filter for better performance")]
       ELSE p4

\* Lines 249-257: the lines from number i on.
RECURSIVE ProjectAfterSummarize(_, _, _)
ProjectAfterSummarize(lines, i, has_summarize) ==
    IF i > Len(lines) THEN FALSE
    ELSE LET line_lower == strip(str_lower(lines[i])) IN
         IF Contains(line_lower, "summarize")
         THEN ProjectAfterSummarize(lines, i + 1, TRUE)
         ELSE IF has_summarize /\ Contains(line_lower, "project") THEN TRUE
         ELSE ProjectAfterSummarize(lines, i + 1, has_summarize)

\* The warnings, in order, whose conditions hold.
Collect(conditions, messages) ==
    LET keep == {k \in 1..Len(conditions) : conditions[k]}
        Pick[n \in 0..Len(conditions)] ==
            IF n = 0 THEN <<>>
            ELSE IF n \in keep THEN Append(Pick[n - 1], messages[n]) ELSE Pick[n - 1]
    IN Pick[Len(conditions)]

\* Lines 231-259.
check_operators_and_functions(query) ==
    LET query_lower == str_lower(query) IN
    Collect(
       <<Contains(query_lower, "order by") /\ Contains(query_lower, "sort by"),
         Contains(query_lower, "take") /\ Contains(query_lower, "limit"),
         /\ Contains(query_lower, "summarize")
         /\ ~\E func \in {"count()", "sum(", "avg(", "min(", "max(", "dcount("} :
                Contains(query_lower, func),
         ProjectAfterSummarize(split(query, "\n"), 1, FALSE)>>,
       <<"Use either 'order by' or 'sort by', not both",
         "Use either 'take' or 'limit', not both",
         "Summarize statement should include aggregation functions",
         "Project after summarize may not work as expected; consider using extend instead">>)

\* function_fixes, in the order of the dict.
function_fixes ==
    <<<<"length(", "strlen(">>, <<"len(", "strlen(">>, <<"substring(", "substr(">>,
      <<"isnull(", "isempty(">>, <<"notnull(", "isnotempty(">>>>

\* re.sub(re.escape(wrong), correct, corrected, flags=re.IGNORECASE)
sub_ignorecase(s, wrong, correct) ==
    LET ends == [i \in 1..Len(s) |->
                    IF StartsWithAtCI(s, i, wrong) THEN i + Len(wrong) ELSE 0]
        repls == [i \in 1..Len(s) |-> correct]
    IN SubFrom(s, 1, ends, repls)

\* Lines 275-278: the fixes from number k on.
RECURSIVE FunctionFixes(_, _)
FunctionFixes(r, k) ==
    IF k > Len(function_fixes) THEN r
    ELSE LET wrong == function_fixes[k][1]
             correct == function_fixes[k][2]
         IN IF Contains(str_lower(r.text), wrong)
            THEN FunctionFixes(
                    [text |-> sub_ignorecase(r.text, wrong, correct),
                     warnings |-> Append(r.warnings,
                        "Corrected function name: " \o wrong \o " -> " \o correct)],
                    k + 1)
            ELSE FunctionFixes(r, k + 1)

\* (\w+)\s*=\s*("[^"]*")  at position i: the positions of its parts, 0 for
\* none.
StringComparison(s, i) ==
    LET none == [word |-> 0, quote |-> 0, end |-> 0] IN
    IF CharAt(s, i) \notin WordChars THEN none
    ELSE LET w == RunEnd(s, i, WordChars)
             eq == RunEnd(s, w, Whitespace)
         IN IF CharAt(s, eq) # "=" THEN none
            ELSE LET q == RunEnd(s, eq + 1, Whitespace) IN
                 IF CharAt(s, q) # "\"" THEN none
                 ELSE LET c == Find(s, "\"", q + 1) IN
                      IF c = 0 THEN none
                      ELSE [word |-> w, quote |-> q, end |-> c + 1]

StringComparisonEnd(s, i) == StringComparison(s, i).end

\* \1 == \2
StringComparisonRepl(s, i, e) ==
    SubSeq(s, i, StringComparison(s, i).word - 1) \o " == " \o
    SubSeq(s, StringComparison(s, i).quote, e - 1)

\* Lines 261-292.
fix_common_mistakes(query) ==
    LET f == FunctionFixes([text |-> query, warnings |-> <<>>], 1) IN
    IF re_search(f.text, StringComparisonEnd)
    THEN [text |-> re_sub(f.text, StringComparisonEnd, StringComparisonRepl),
          warnings |-> Append(f.warnings,
             "Changed assignment operator (=) to comparison operator (==) for string comparison")]
    ELSE f

\* Lines 301-310: the first line, stripped, that is neither empty nor a
\* comment; "" when there is none.
FirstQueryLine(query) ==
    LET lines == split(query, "\n")
        hits == {k \in 1..Len(lines) :
                    strip(lines[k]) # "" /\ ~startswith(strip(lines[k]), "//")}
    IN IF hits = {} THEN ""
       ELSE strip(lines[Least(hits)])

\* final_validation without the comparison of lines 322-325.
final_validation_unchecked(query) ==
    LET first_line == FirstQueryLine(query) IN
    /\ strip(query) # ""
    /\ first_line # ""
    /\ \/ CharAt(first_line, 1) \in Letters
       \/ startswith(str_lower(first_line), "union")
       \/ startswith(str_lower(first_line), "let")

\* final_validation that accepts only a known table at the head of the
\* first line.
final_validation_known_table(query) ==
    LET first_line == FirstQueryLine(query) IN
    /\ strip(query) # ""
    /\ \E k \in 1..Len(common_tables) : startswith(first_line, common_tables[k])
    /\ str_count(query, "(") = str_count(query, ")")

\* Lines 294-327.
final_validation(query) ==
    LET first_line == FirstQueryLine(query) IN
    /\ strip(query) # ""
    /\ first_line # ""
    /\ \/ CharAt(first_line, 1) \in Letters
       \/ startswith(str_lower(first_line), "union")
       \/ startswith(str_lower(first_line), "let")
    /\ str_count(query, "(") = str_count(query, ")")

\* Lines 62-72: the result, from what the stages returned.
Validated(syntax, tables, time, mistakes) ==
    [text |-> mistakes.text,
     warnings |-> syntax.warnings \o tables.warnings \o time.warnings \o
                  check_operators_and_functions(time.text) \o mistakes.warnings,
     is_valid |-> final_validation(mistakes.text)]

\* Lines 58-68: the stages after the time filters.
AfterTimeFilters(syntax, tables, time) ==
    Validated(syntax, tables, time, fix_common_mistakes(time.text))

\* Lines 54-56: the stages after the table names.
AfterTableNames(syntax, tables) ==
    AfterTimeFilters(syntax, tables, check_time_filters(tables.text))

\* Lines 50-52: the stages after the basic syntax checks.
AfterBasicSyntax(syntax, available_tables, pool) ==
    AfterTableNames(syntax,
                    check_table_names(syntax.text, available_tables, pool))

\* Lines 36-72.  pool is the order in which list(self.common_tables) lists
\* the set in the process that runs the call.
validate_and_correct(kql_query, available_tables, pool) ==
    AfterBasicSyntax(check_basic_syntax(remove_markdown(strip(kql_query))),
                     available_tables, pool)

\* ------------------------------------------- validator, called
\* list(self.common_tables) lists a set of strings: its order is fixed
\* within one process and differs between processes with the hash seed.
\* Two orders that the interpreter produces (PYTHONHASHSEED 0 and 1).
PoolOrders ==
    {<<"AuditLogs", "ConfigurationChange", "Heartbeat", "AzureActivity",
       "ContainerLog", "SecurityEvent", "Usage", "Event", "VMConnection",
       "Syslog", "SecurityIncident", "Perf", "SigninLogs", "SecurityAlert",
       "Operation", "AppServiceHTTPLogs", "InsightsMetrics",
       "ConfigurationData", "KubeEvents", "Alert",
       "ThreatIntelligenceIndicator">>,
     <<"Alert", "SecurityIncident", "Syslog", "VMConnection", "Heartbeat",
       "ConfigurationData", "ThreatIntelligenceIndicator", "ContainerLog",
       "SigninLogs", "AuditLogs", "SecurityEvent", "Usage", "InsightsMetrics",
       "SecurityAlert", "KubeEvents", "Operation", "AzureActivity",
       "ConfigurationChange", "Perf", "Event", "AppServiceHTTPLogs">>}

\* The available_tables arguments: <<>> is None, the default.
Allowlists ==
    {<<>>,
     <<"SecurityEvent">>,
     <<"Syslog", "Event", "SecurityEvent", "Perf">>}

\* Generated text wrapped in a fence with a language tag ("" for none).
Fenced(tag, body) == Fence \o tag \o "\n" \o body \o "\n" \o Fence

LanguageTags == {"", "kql", "kusto", "KQL", "sql"}

FencedBodies ==
    {"Event | take 1",
     "SecurityEven | where x",
     "Event | where TimeGenerated > ago(7)"}

\* A time filter whose ago() argument is number n, spelled with unit word u
\* ("" for a bare number).
AgoNumbers == {"7", "30"}

AgoUnitWords == {"", "day", "days", "hour", "hours", "minute", "minutes"}

AgoStyles == {"tight", "loose"}

AgoQuery(n, u, style) ==
    IF style = "tight"
    THEN "Event | where TimeGenerated > ago(" \o n \o
         (IF u = "" THEN "" ELSE " " \o u) \o ")"
    ELSE "Event | where TimeGenerated > AGO ( " \o n \o u \o " )"

PlainQueries ==
    {"SecurityEven | where x",
     "securityevent | take 1",
     "Events | count",
     "Sislog | count",
     "Pref\n| take 1",
     "Xyzzy | count",
     "Event | where len(x) > 3",
     "Event | where length(x) > 3",
     "Event;;",
     "Event | where x == ) (",
     "Event | where f(x",
     "Event | where f(x))",
     "Event",
     "Event\n| where (x == (y))",
     "Event\nwhere x = \"a\"",
     "Event | project TimeGenerated",
     "Event | take 1",
     "Event | where t > ago (7d)",
     "Event | where TimeGenerated > ago(7d)",
     "",
     "| Event",
     "// failed logons\nEvent | take 1",
     "// Events here\nEvents\n| take 1",
     "StormEvents | count",
     "Event | where strlen(x) > 3",
     "Event | where isnotnull(x)",
     "Event | where len(x) > 3 and LEN(y) > 2",
     "Event | where a = \"x\" and b = \"y\"",
     Backtick \o "Event | take 1" \o Backtick}

RawQueries ==
    PlainQueries
    \cup {Fenced(tag, body) : tag \in LanguageTags, body \in FencedBodies}
    \cup {AgoQuery(n, u, style) :
             n \in AgoNumbers, u \in AgoUnitWords, style \in AgoStyles}

\* No validator call is being followed.
IdleVal ==
    [kql_query |-> "", available_tables |-> <<>>, pool |-> common_tables,
     first |-> <<>>, again |-> <<>>, elsewhere |-> <<>>, returned |-> <<>>]

\* validator.validate_and_correct(kql_query, available_tables) in the
\* process whose candidate pool is val.pool.
validate_call ==
    /\ val.first = <<>>
    /\ val.returned = <<>>
    /\ val' = [val EXCEPT !.first =
                 <<validate_and_correct(val.kql_query, val.available_tables,
                                        val.pool)>>]
    /\ UNCHANGED <<initialized, store, ini, gen, fb_raised, cx, ref>>

\* The same process validates the text that the first call returned.
validate_output ==
    /\ val.first # <<>>
    /\ val.again = <<>>
    /\ val' = [val EXCEPT !.again =
                 <<validate_and_correct(val.first[1].text,
                                        val.available_tables, val.pool)>>]
    /\ UNCHANGED <<initialized, store, ini, gen, fb_raised, cx, ref>>

\* A process whose candidate pool is listed in order pool validates the
\* same input.
validate_elsewhere(pool) ==
    /\ val.first # <<>>
    /\ val.elsewhere = <<>>
    /\ val' = [val EXCEPT !.elsewhere =
                 <<validate_and_correct(val.kql_query, val.available_tables,
                                        pool)>>]
    /\ UNCHANGED <<initialized, store, ini, gen, fb_raised, cx, ref>>

\* nlp2kql.nl_to_kql(natural_language, use_rag=use_rag) when the Generation
\* Service answers the request with the text val.kql_query.  With use_rag
\* the text goes through validate_and_correct, with the names of the refined
\* tables (multi_rag_workflow.py line 197) or, on the fallback path (line
\* 342), without an allowlist: val.available_tables, <<>> on the fallback
\* path; the kql_query entry of the result is returned.  Without use_rag the
\* text of the service is returned as it is.
nl_to_kql(use_rag) ==
    /\ val.first = <<>>
    /\ val.returned = <<>>
    /\ val' = [val EXCEPT !.returned =
                 <<IF use_rag
                   THEN validate_and_correct(val.kql_query, val.available_tables,
                                             val.pool).text
                   ELSE val.kql_query>>]
    /\ UNCHANGED <<initialized, store, ini, gen, fb_raised, cx, ref>>

\* ------------------------------------------- query complexity
\* performance_impact with the first threshold of line 349 included.
performance_impact_from_five(complexity_score) ==
    IF complexity_score >= 5 THEN "High"
    ELSE IF complexity_score > 2 THEN "Medium"
    ELSE "Low"

\* Lines 348-352.
performance_impact(complexity_score) ==
    IF complexity_score > 5 THEN "High"
    ELSE IF complexity_score > 2 THEN "Medium"
    ELSE "Low"

\* Lines 329-360.
get_query_complexity_score(query) ==
    LET query_lower == str_lower(query)
        operations ==
            [filters |-> str_count(query_lower, "where"),
             projections |-> str_count(query_lower, "project"),
             aggregations |-> str_count(query_lower, "summarize"),
             joins |-> str_count(query_lower, "join"),
             unions |-> str_count(query_lower, "union"),
             sorts |-> str_count(query_lower, "order by")
                       + str_count(query_lower, "sort by"),
             limits |-> str_count(query_lower, "take")
                        + str_count(query_lower, "limit")]
        lines == split(query, "\n")
        complexity_score ==
            operations.filters + operations.projections
            + operations.aggregations + operations.joins + operations.unions
            + operations.sorts + operations.limits
    IN [operations |-> operations,
        complexity_score |-> complexity_score,
        performance_impact |-> performance_impact(complexity_score),
        line_count |-> Cardinality({i \in 1..Len(lines) : strip(lines[i]) # ""}),
        has_time_filter |-> \/ Contains(query_lower, "ago(")
                            \/ Contains(query_lower, "timegenerated")]

\* The keywords that the score counts.
RecognizedKeywords ==
    {"where", "project", "summarize", "join", "union", "order by", "sort by",
     "take", "limit"}

ComplexityQueries ==
    {"Event",
     "Event | WHERE x > 1\n| summarize count() by y\n\n| take 5",
     "A | join (B) on k | union C | order by k | sort by k | limit 1 | project k"}

\* How many keywords a followed query is extended by.
MaxAppended == 3

\* No complexity report is being followed.
IdleCx == [query |-> "", appended |-> 0, report |-> <<>>]

\* validator.get_query_complexity_score(query)
complexity_call ==
    /\ cx.report = <<>>
    /\ cx' = [cx EXCEPT !.report = <<get_query_complexity_score(cx.query)>>]
    /\ UNCHANGED <<initialized, store, ini, gen, fb_raised, val, ref>>

\* The query is extended by another operator, and scored again.
append_keyword(keyword) ==
    /\ cx.report # <<>>
    /\ cx.appended < MaxAppended
    /\ LET query == cx.query \o " | " \o keyword
       IN cx' = [query |-> query,
                 appended |-> cx.appended + 1,
                 report |-> <<get_query_complexity_score(query)>>]
    /\ UNCHANGED <<initialized, store, ini, gen, fb_raised, val, ref>>

\* ------------------------------------------------- SchemaRefiner
\* Scores are sums of 0.5, 1.0, 1.5, 2.0 and 3.0: the model counts them in
\* halves, so that 1.5 is 3.
max_fields_per_table == 15

\* The cap of line 87.
MaxRefinedTables == 5

priority_fields ==
    <<"TimeGenerated", "Computer", "SourceSystem", "Type", "Category",
      "EventID", "Level", "LogLevel", "Severity", "Status", "State",
      "UserName", "User", "Account", "IPAddress", "SourceIP", "DestinationIP",
      "ProcessName", "CommandLine", "FileName", "FilePath", "Message">>

\* [pf.lower() for pf in self.priority_fields], as a set
priority_fields_lower ==
    {str_lower(priority_fields[k]) : k \in 1..Len(priority_fields)}

\* field_name_lower in [pf.lower() for pf in self.priority_fields]
IsPriorityField(field_name_lower) == field_name_lower \in priority_fields_lower

\* any(keyword in text for keyword in keywords)
AnyIn(keywords, text) == \E keyword \in keywords : Contains(text, keyword)

\* str.split() without a separator: the words between runs of whitespace,
\* from position i on.
RECURSIVE WordsFrom(_, _)
WordsFrom(s, i) ==
    LET a == RunEnd(s, i, Whitespace) IN
    IF a > Len(s) THEN <<>>
    ELSE LET b == Least({j \in a..(Len(s) + 1) :
                            j = Len(s) + 1 \/ CharAt(s, j) \in Whitespace})
         IN <<SubSeq(s, a, b - 1)>> \o WordsFrom(s, b)

split_whitespace(s) == WordsFrom(s, 1)

\* list.sort(key=..., reverse=True) keeps the elements of equal key in the
\* order they had: the element of rank r is the one that r - 1 elements go
\* before, by a greater key or by an equal key and an earlier position.
SortedDescending(items, Greater(_, _)) ==
    LET n == Len(items)
        list == SubSeq(items, 1, n)
        Before(j, i) == \/ Greater(list[j], list[i])
                        \/ ~Greater(list[i], list[j]) /\ j < i
        rank == SubSeq([i \in 1..n |->
                          Cardinality({j \in 1..n : Before(j, i)}) + 1], 1, n)
    IN SubSeq([r \in 1..n |-> list[CHOOSE i \in 1..n : rank[i] = r]], 1, n)

GreaterPriority(a, b) == a.priority_score > b.priority_score

\* Lines 153-176, in halves.
calculate_field_priority(field, nl_lower) ==
    LET field_name_lower == str_lower(field.field_name)
        description_lower == str_lower(field.description)
        words == split_whitespace(nl_lower)
    IN (IF Contains(nl_lower, field_name_lower) THEN 6 ELSE 0)
       + (IF IsPriorityField(field_name_lower) THEN 4 ELSE 0)
       + (IF AnyIn({"user", "computer", "process", "file", "ip", "address",
                    "message", "event", "error", "status"}, field_name_lower)
          THEN 2 ELSE 0)
       + (IF \E k \in 1..Len(words) :
                Len(words[k]) > 3 /\ Contains(description_lower, words[k])
          THEN 1 ELSE 0)

\* Lines 103-108, in halves: the fields from number k on.
RECURSIVE FieldRelevance(_, _, _)
FieldRelevance(fields, nl_lower, k) ==
    IF k > Len(fields) THEN 0
    ELSE LET field_name_lower == str_lower(fields[k].field_name)
         IN (IF Contains(nl_lower, field_name_lower) THEN 3 ELSE 0)
            + (IF IsPriorityField(field_name_lower) THEN 1 ELSE 0)
            + FieldRelevance(fields, nl_lower, k + 1)

\* The table priority without the field relevance of lines 102-108.
calculate_table_priority_of_name(table_name, fields, nl_lower) ==
    LET table_lower == str_lower(table_name)
    IN (IF AnyIn({"security", "event", "log", "audit"}, table_lower)
        THEN 2 ELSE 0)
       + (IF Contains(nl_lower, table_lower) THEN 4 ELSE 0)
       + (IF table_lower \in {"securityevent", "syslog", "event",
                              "azureactivity", "signinlogs"}
          THEN 1 ELSE 0)

\* Lines 89-115, in halves.
calculate_table_priority(table_name, fields, nl_lower) ==
    LET table_lower == str_lower(table_name)
    IN (IF AnyIn({"security", "event", "log", "audit"}, table_lower)
        THEN 2 ELSE 0)
       + (IF Contains(nl_lower, table_lower) THEN 4 ELSE 0)
       + FieldRelevance(fields, nl_lower, 1)
       + (IF table_lower \in {"securityevent", "syslog", "event",
                              "azureactivity", "signinlogs"}
          THEN 1 ELSE 0)

\* Lines 131-149: the loop over the sorted fields from number k on.
RECURSIVE FieldLoop(_, _, _, _)
FieldLoop(fields, k, final_fields, priority_fields_included) ==
    IF k > Len(fields) \/ Len(final_fields) >= max_fields_per_table
    THEN final_fields
    ELSE LET field == fields[k]
             field_name_lower == str_lower(field.field_name)
         IN IF field_name_lower = "timegenerated"
            THEN FieldLoop(fields, k + 1, <<field>> \o final_fields,
                           priority_fields_included \cup {field_name_lower})
            ELSE IF /\ IsPriorityField(field_name_lower)
                    /\ field_name_lower \notin priority_fields_included
            THEN FieldLoop(fields, k + 1, Append(final_fields, field),
                           priority_fields_included \cup {field_name_lower})
            ELSE IF field.priority_score > 1
            THEN FieldLoop(fields, k + 1, Append(final_fields, field),
                           priority_fields_included)
            ELSE FieldLoop(fields, k + 1, final_fields,
                           priority_fields_included)

\* Lines 121-125: the fields with their scores, sorted.
ScoredAndSorted(fields, nl_lower) ==
    SortedDescending(
       [k \in 1..Len(fields) |->
           [table_name |-> fields[k].table_name,
            field_name |-> fields[k].field_name,
            description |-> fields[k].description,
            priority_score |-> calculate_field_priority(fields[k], nl_lower)]],
       GreaterPriority)

\* prioritize_fields without the loop of lines 131-149 and its cap.
prioritize_fields_uncapped(fields, nl_lower) ==
    ScoredAndSorted(fields, nl_lower)

\* prioritize_fields with the fields of the priority list moved ahead of the
\* other fields.
prioritize_fields_list_first(fields, nl_lower) ==
    LET final_fields == FieldLoop(ScoredAndSorted(fields, nl_lower), 1, <<>>, {})
    IN SelectSeq(final_fields,
                 LAMBDA field : IsPriorityField(str_lower(field.field_name)))
       \o SelectSeq(final_fields,
                    LAMBDA field : ~IsPriorityField(str_lower(field.field_name)))

\* Lines 117-151.
prioritize_fields(fields, nl_lower) ==
    FieldLoop(ScoredAndSorted(fields, nl_lower), 1, <<>>, {})

\* Lines 30-32: the table names in the order of their first field, and the
\* fields of a table in their order.
RECURSIVE TableNamesFrom(_, _, _)
TableNamesFrom(relevant_fields, k, names) ==
    IF k > Len(relevant_fields) THEN names
    ELSE TableNamesFrom(relevant_fields, k + 1,
            IF \E i \in 1..Len(names) : names[i] = relevant_fields[k].table_name
            THEN names
            ELSE Append(names, relevant_fields[k].table_name))

FieldsOfTable(relevant_fields, table_name) ==
    SelectSeq(relevant_fields, LAMBDA field : field.table_name = table_name)

max_sample_values == 5

\* Lines 188-191: the samples among the first max_sample_values, as text,
\* that contain a word of the request longer than two characters.
relevant_samples_of(sample_values, nl_lower) ==
    LET words == split_whitespace(nl_lower)
    IN SelectSeq(Prefix(sample_values, max_sample_values),
                 LAMBDA sample :
                    \E k \in 1..Len(words) :
                       Len(words[k]) > 2 /\ Contains(str_lower(sample), words[k]))

\* Lines 183-197: the loop over the value sets of a table from number k on,
\* the test of line 193 being given.
RECURSIVE ValueLoop(_, _, _, _, _)
ValueLoop(table_values, k, relevant_values, nl_lower, least_kept) ==
    IF k > Len(table_values) THEN relevant_values
    ELSE LET sample_values == table_values[k].sample_values
             relevant_samples == relevant_samples_of(sample_values, nl_lower)
         IN IF relevant_samples # <<>> \/ Len(relevant_values) < least_kept
            THEN ValueLoop(table_values, k + 1,
                    Append(relevant_values,
                       [field_name |-> table_values[k].field_name,
                        sample_values |->
                           IF relevant_samples # <<>> THEN relevant_samples
                           ELSE Prefix(sample_values, max_sample_values)]),
                    nl_lower, least_kept)
            ELSE ValueLoop(table_values, k + 1, relevant_values, nl_lower,
                           least_kept)

\* get_relevant_values with every value set kept, whether a sample matched
\* or not.
get_relevant_values_keeping_all(table_name, relevant_values, nl_lower) ==
    Prefix(ValueLoop(FieldsOfTable(relevant_values, table_name), 1, <<>>,
                     nl_lower, Len(relevant_values) + 1), 5)

\* Lines 178-199.
get_relevant_values(table_name, relevant_values, nl_lower) ==
    Prefix(ValueLoop(FieldsOfTable(relevant_values, table_name), 1, <<>>,
                     nl_lower, 3), 5)

\* Lines 59-87.  The description of a table is left out of the table_info
\* records.
prioritize_and_refine_tables(relevant_fields, relevant_values, natural_language) ==
    LET nl_lower == str_lower(natural_language)
        names == TableNamesFrom(relevant_fields, 1, <<>>)
        refined_tables ==
           [k \in 1..Len(names) |->
               LET fields == FieldsOfTable(relevant_fields, names[k])
               IN [table_name |-> names[k],
                   priority_score |->
                      calculate_table_priority(names[k], fields, nl_lower),
                   fields |-> prioritize_fields(fields, nl_lower),
                   sample_values |->
                      get_relevant_values(names[k], relevant_values, nl_lower)]]
    IN Prefix(SortedDescending(refined_tables, GreaterPriority), MaxRefinedTables)

\* Lines 222-247.
identify_kql_patterns(kql_query) ==
    LET kql_lower == str_lower(kql_query) IN
    Collect(<<Contains(kql_lower, "where"),
              Contains(kql_lower, "summarize"),
              Contains(kql_lower, "project"),
              Contains(kql_lower, "join"),
              Contains(kql_lower, "extend"),
              Contains(kql_lower, "order by") \/ Contains(kql_lower, "sort by"),
              Contains(kql_lower, "take") \/ Contains(kql_lower, "limit"),
              Contains(kql_lower, "ago("),
              Contains(kql_lower, "count()")>>,
            <<"filtering", "aggregation", "column_selection", "table_join",
              "calculated_fields", "sorting", "limiting", "time_filtering",
              "counting">>)

stop_words ==
    {"the", "a", "an", "and", "or", "but", "in", "on", "at", "to", "for",
     "of", "with", "by", "show", "get", "find"}

\* The float 0.0, and the quotient of two lengths, as a fraction.
Zero == [num |-> 0, den |-> 1]

\* calculate_query_relevance that divides by the words of the target.
calculate_query_relevance_of_target(similar_nl, target_nl) ==
    LET similar_words == Elements(split_whitespace(str_lower(similar_nl))) \ stop_words
        target_words == Elements(split_whitespace(str_lower(target_nl))) \ stop_words
    IN IF target_words = {} THEN Zero
       ELSE [num |-> Cardinality(similar_words \cap target_words),
             den |-> Cardinality(target_words)]

\* Lines 249-266.  A score is the fraction num / den.
calculate_query_relevance(similar_nl, target_nl) ==
    LET similar_words == Elements(split_whitespace(str_lower(similar_nl))) \ stop_words
        target_words == Elements(split_whitespace(str_lower(target_nl))) \ stop_words
        intersection == similar_words \cap target_words
        union == similar_words \cup target_words
    IN IF target_words = {} THEN Zero
       ELSE IF union # {}
       THEN [num |-> Cardinality(intersection), den |-> Cardinality(union)]
       ELSE Zero

\* a > b for two fractions.
GreaterRelevance(a, b) ==
    a.relevance_score.num * b.relevance_score.den
    > b.relevance_score.num * a.relevance_score.den

\* Lines 201-220.
extract_query_patterns(similar_queries, natural_language) ==
    LET top == Prefix(similar_queries, 3)
    IN SortedDescending(
          [k \in 1..Len(top) |->
              [similar_nl |-> top[k].natural_language,
               kql_query |-> top[k].kql_query,
               patterns |-> identify_kql_patterns(top[k].kql_query),
               relevance_score |->
                  calculate_query_relevance(top[k].natural_language,
                                            natural_language)]],
          GreaterRelevance)

\* Lines 21-57: the tables and the patterns of the refined context.
refine_context(natural_language, relevant_fields, relevant_values, similar_queries) ==
    [refined_tables |->
        prioritize_and_refine_tables(relevant_fields, relevant_values,
                                     natural_language),
     query_patterns |->
        extract_query_patterns(similar_queries, natural_language)]

\* The candidates of a request: how many fields of one table, and how many
\* other tables, similarity search returns.
MaxWideFields == 16

MaxOtherTables == 6

\* The field names of the wide table, in four orders of arrival.
FieldRosters ==
    {priority_fields \o <<"ErrorCode", "Notes">>,
     <<"Notes", "ErrorCode", "Message", "FilePath", "FileName", "CommandLine",
       "ProcessName", "DestinationIP", "SourceIP", "IPAddress", "Account",
       "User", "UserName", "State", "Status", "Severity", "LogLevel", "Level",
       "EventID", "Category", "Type", "SourceSystem", "Computer",
       "timegenerated">>,
     SubSeq(priority_fields, 2, 16) \o <<"TimeGenerated", "ErrorCode", "Notes">>,
     <<"Notes", "Computer", "TimeGenerated", "ErrorCode", "UserName", "Account">>
        \o SubSeq(priority_fields, 3, 11) \o SubSeq(priority_fields, 15, 22)}

OtherTables ==
    <<"Syslog", "Perf", "Heartbeat", "AuditLogs", "Usage", "Event",
      "SigninLogs", "AzureActivity">>

Field(table_name, field_name) ==
    [table_name |-> table_name, field_name |-> field_name,
     description |-> "Name of the " \o field_name \o " of failed logons"]

\* w fields of SecurityEvent from a roster, then one field for each of t
\* other tables.
CandidateFields(roster, w, t) ==
    [k \in 1..w |-> Field("SecurityEvent", roster[k])]
    \o [k \in 1..t |-> Field(OtherTables[k], priority_fields[k])]

Requests ==
    {"show failed logons by username in securityevent",
     "Show Computer status from syslog",
     "find the events",
     "count errorcode values by computer",
     "show the",
     ""}

\* The value sets that similarity search returns for a request: the sample
\* values of the fields of two tables, in two orders of arrival.
MaxValueFields == 10

FieldValues(table_name, field_name, sample_values) ==
    [table_name |-> table_name, field_name |-> field_name,
     sample_values |-> sample_values]

ValueRosters ==
    {<<FieldValues("SecurityEvent", "EventID", <<"4624", "4625">>),
       FieldValues("SecurityEvent", "Level", <<"Info", "Warning">>),
       FieldValues("Syslog", "Facility", <<"auth", "daemon">>),
       FieldValues("SecurityEvent", "Computer", <<"srv01">>),
       FieldValues("SecurityEvent", "Account", <<"admin", "guest">>),
       FieldValues("SecurityEvent", "Status", <<"Failed", "Success">>),
       FieldValues("SecurityEvent", "Type",
                   <<"a", "b", "c", "d", "e", "Failed logons", "g">>),
       FieldValues("SecurityEvent", "Activity",
                   <<"4625 - Logons failed", "none", "Show">>),
       FieldValues("SecurityEvent", "Message", <<>>),
       FieldValues("SecurityEvent", "UserName", <<"username01">>),
       FieldValues("SecurityEvent", "Category", <<"Events of the Computer">>)>>,
     <<FieldValues("SecurityEvent", "Type",
                   <<"a", "b", "c", "d", "e", "Failed logons", "g">>),
       FieldValues("SecurityEvent", "Message", <<>>),
       FieldValues("SecurityEvent", "Status", <<"Failed", "Success">>),
       FieldValues("SecurityEvent", "Activity",
                   <<"4625 - Logons failed", "none", "Show">>),
       FieldValues("SecurityEvent", "UserName", <<"username01">>),
       FieldValues("SecurityEvent", "Category", <<"Events of the Computer">>),
       FieldValues("SecurityEvent", "Computer", <<"srv01">>),
       FieldValues("Syslog", "Facility", <<"auth", "daemon">>),
       FieldValues("SecurityEvent", "EventID", <<"4624", "4625">>),
       FieldValues("SecurityEvent", "Level", <<"Info", "Warning">>),
       FieldValues("SecurityEvent", "Account", <<"admin", "guest">>)>>}

SimilarQuery(natural_language, kql_query) ==
    [natural_language |-> natural_language, kql_query |-> kql_query]

SimilarQueryLists ==
    {<<>>,
     <<SimilarQuery("get events", "Event | take 10"),
       SimilarQuery("Show failed logons by UserName in SecurityEvent",
                    "SecurityEvent | where EventID == 4625 | summarize count() by UserName"),
       SimilarQuery("show failed logons", "SecurityEvent | project Account | sort by Account"),
       SimilarQuery("find the", "Syslog | where TimeGenerated > ago(1d)")>>,
     <<SimilarQuery("", "Perf | limit 5"),
       SimilarQuery("computer status from syslog for the computer",
                    "Syslog | extend c = Computer | order by c"),
       SimilarQuery("failed logons by account", "SecurityEvent | join (Event) on Computer")>>}

\* No refinement is being followed.
IdleRef ==
    [natural_language |-> "", relevant_fields |-> <<>>,
     relevant_values |-> <<>>, similar_queries |-> <<>>, refined |-> <<>>]

\* schema_refiner.refine_context(natural_language, relevant_fields, ...)
refine_call ==
    /\ ref.refined = <<>>
    /\ ref' = [ref EXCEPT !.refined =
                 <<refine_context(ref.natural_language, ref.relevant_fields,
                                  ref.relevant_values, ref.similar_queries)>>]
    /\ UNCHANGED <<initialized, store, ini, gen, fb_raised, val, cx>>

\* ------------------------------------------------ process restart
\* The module-level singleton is constructed anew (_initialized = False)
\* over the persisted collections, which keep their records.
Restart ==
    /\ \A c \in InitCallers : ini[c].pc = "idle"
    /\ \A g \in GenThreads : gen[g].pc \in {"idle", "done"}
    /\ initialized
    /\ initialized' = FALSE
    /\ ini' = [c \in InitCallers |-> IdleInit]
    /\ gen' = [g \in GenThreads |-> IdleGen]
    /\ UNCHANGED <<store, fb_raised, fn_vars>>

Init ==
    /\ initialized = FALSE
    /\ store = EmptyStore
    /\ ini = [c \in InitCallers |-> IdleInit]
    /\ gen = [g \in GenThreads |-> IdleGen]
    /\ fb_raised = FALSE
    /\ val = IdleVal
    /\ cx = IdleCx
    /\ ref = IdleRef

\* The steps of initialize calls.
InitStep ==
    \/ \E c \in InitCallers, f \in BOOLEAN : init_call(c, f)
    \/ \E c \in InitCallers, ok \in BOOLEAN, d \in Discoveries :
          init_check_stats(c, ok, d)
    \/ \E c \in InitCallers, n \in 0..3 : init_populate(c, n)
    \/ \E c \in InitCallers : init_seeds(c)

\* The steps of generate requests.
GenStep ==
    \/ \E g \in GenThreads, u \in BOOLEAN : gen_request(g, u)
    \/ \E g \in GenThreads, ok \in BOOLEAN : gen_search(g, ok)
    \/ \E g \in GenThreads, ok \in BOOLEAN : gen_refine(g, ok)
    \/ \E g \in GenThreads, ok \in BOOLEAN, v \in BOOLEAN : gen_generate(g, ok, v)
    \/ \E g \in GenThreads, ok \in BOOLEAN, v \in BOOLEAN : gen_retry(g, ok, v)
    \/ \E g \in GenThreads, ok \in BOOLEAN, v \in BOOLEAN : gen_fallback(g, ok, v)
    \/ \E g \in GenThreads, ok \in BOOLEAN, v \in BOOLEAN : gen_basic(g, ok, v)

FeedbackStep ==
    \E l \in FeedbackLabels, q \in CorrectedQueries : add_feedback(l, q)

\* Generate requests against an orchestrator that is being initialized,
\* refreshed and restarted.
Next == InitStep \/ GenStep \/ Restart

Spec == Init /\ [][Next]_vars

\* The writers of the index and of the flag: initialize calls, feedback and
\* restarts.
NextIndex == InitStep \/ FeedbackStep \/ Restart

SpecIndex == Init /\ [][NextIndex]_vars

\* The orchestrator as constructed, for the specifications that follow the
\* calls of one component.
Constructed ==
    /\ initialized = FALSE
    /\ store = EmptyStore
    /\ ini = [c \in InitCallers |-> IdleInit]
    /\ gen = [g \in GenThreads |-> IdleGen]
    /\ fb_raised = FALSE

\* One generated text, validated by a process, validated again, and
\* validated by another process.
InitValidator ==
    /\ Constructed
    /\ \E q \in RawQueries, tables \in Allowlists, pool \in PoolOrders :
          val = [IdleVal EXCEPT !.kql_query = q,
                                !.available_tables = tables,
                                !.pool = pool]
    /\ cx = IdleCx
    /\ ref = IdleRef

NextValidator ==
    \/ validate_call
    \/ validate_output
    \/ \E pool \in PoolOrders : validate_elsewhere(pool)
    \/ \E use_rag \in BOOLEAN : nl_to_kql(use_rag)

SpecValidator == InitValidator /\ [][NextValidator]_vars

\* One query, scored and extended.
InitComplexity ==
    /\ Constructed
    /\ val = IdleVal
    /\ \E q \in ComplexityQueries : cx = [IdleCx EXCEPT !.query = q]
    /\ ref = IdleRef

NextComplexity ==
    \/ complexity_call
    \/ \E keyword \in RecognizedKeywords : append_keyword(keyword)

SpecComplexity == InitComplexity /\ [][NextComplexity]_vars

\* One request with its candidates, refined.
InitRefiner ==
    /\ Constructed
    /\ val = IdleVal
    /\ cx = IdleCx
    /\ \/ \E nl \in Requests, roster \in FieldRosters,
             w \in 0..MaxWideFields, t \in 0..MaxOtherTables :
             ref = [IdleRef EXCEPT !.natural_language = nl,
                                   !.relevant_fields = CandidateFields(roster, w, t)]
       \/ \E nl \in Requests, values \in ValueRosters, n \in 1..MaxValueFields :
             ref = [IdleRef EXCEPT !.natural_language = nl,
                                   !.relevant_fields =
                                      CandidateFields(priority_fields, 1, 1),
                                   !.relevant_values = Prefix(values, n)]
       \/ \E nl \in Requests, similar \in SimilarQueryLists, roster \in FieldRosters :
             ref = [IdleRef EXCEPT !.natural_language = nl,
                                   !.relevant_fields = CandidateFields(roster, 1, 1),
                                   !.similar_queries = similar]

NextRefiner == refine_call

SpecRefiner == InitRefiner /\ [][NextRefiner]_vars

\* ------------------------------------------------------------- properties
Last(seq) == seq[Len(seq)]

Occurs(x, seq) == \E i \in 1..Len(seq) : seq[i] = x

\* The request of thread g has been answered.
Done(g) == gen[g].pc = "done"

\* The request of thread g called, or completed, a similarity lookup.
IssuedLookup(g) ==
    \E k \in 1..Len(Lookups) :
        Occurs(Lookups[k], gen[g].trace) \/ Occurs(Lookups[k], gen[g].errors)

\* The answer of thread g is the one _fallback_generation builds after its
\* Generation Service call returned.
AnsweredByFallback(g) ==
    /\ Len(gen[g].trace) >= Len(FallbackStages)
    /\ SubSeq(gen[g].trace, Len(gen[g].trace) - Len(FallbackStages) + 1,
              Len(gen[g].trace)) = FallbackStages
    /\ gen[g].result.kql_query = "corrected_kql"
    /\ gen[g].result.context_used = "zero_counts"

\* The answer of thread g is the placeholder of a failed fallback.
AnsweredByPlaceholder(g) ==
    /\ gen[g].result.kql_query = "error_comment"
    /\ gen[g].result.is_valid = FALSE
    /\ gen[g].result.warnings = "generation_failed_reason"
    /\ gen[g].result.context_used = "empty"

\* C1: a generate request (generate_kql_with_rag, and nl_to_kql_detailed
\* around it) always ends with a result that carries query text, a warning
\* list and a validity flag, and no exception leaves either function,
\* whichever lookups and Generation Service calls fail and whatever the
\* flag is; a request whose Validator outcome is is_valid = false on the
\* retrieval path is answered with that outcome as the retrieval-path result.
GenerateAlwaysReturnsResult ==
    \A g \in GenThreads :
        /\ gen[g].escaped = {}
        /\ Done(g) =>
            /\ gen[g].result.kql_query \in {"corrected_kql", "error_comment"}
            /\ gen[g].result.warnings \in
                  {"validator_warnings", "generation_failed_reason"}
            /\ gen[g].result.is_valid \in BOOLEAN
            /\ gen[g].trace = ReadyStages =>
                  /\ gen[g].result.kql_query = "corrected_kql"
                  /\ gen[g].result.rag_workflow_used

\* C1 witness: a request went through every retrieval-path stage, the
\* Validator said is_valid = false, and that is the answer.
InvalidQueryReturnedWitness ==
    \E g \in GenThreads :
        /\ Done(g) /\ gen[g].ready /\ gen[g].trace = ReadyStages
        /\ ~gen[g].result.is_valid /\ gen[g].result.rag_workflow_used

\* C2 as stated: rag_workflow_used is true iff the flag was set when the
\* request started and every retrieval-path stage completed in order; a
\* request that started with the flag unset issues no lookup and is answered
\* by the fallback (Generation Service, Validator) with zero counts.
RagUsedIffReadyZeroCounts ==
    \A g \in GenThreads :
        Done(g) /\ gen[g].use_rag =>
            /\ gen[g].result.rag_workflow_used <=>
                  (gen[g].ready /\ gen[g].trace = ReadyStages)
            /\ ~gen[g].ready =>
                  /\ ~IssuedLookup(g)
                  /\ ~gen[g].result.rag_workflow_used
                  /\ gen[g].trace = FallbackStages
                  /\ gen[g].result.context_used = "zero_counts"

\* C2 amended: as stated, except that a request that started with the flag
\* unset and whose fallback Generation Service call raises is answered by
\* the placeholder, whose context_used is empty and which no Validator saw.
RagUsedIffReady ==
    \A g \in GenThreads :
        Done(g) /\ gen[g].use_rag =>
            /\ gen[g].result.rag_workflow_used <=>
                  (gen[g].ready /\ gen[g].trace = ReadyStages)
            /\ ~gen[g].ready =>
                  /\ ~IssuedLookup(g)
                  /\ ~gen[g].result.rag_workflow_used
                  /\ IF gen[g].errors = <<>>
                     THEN /\ gen[g].trace = FallbackStages
                          /\ gen[g].result.context_used = "zero_counts"
                     ELSE /\ gen[g].errors = <<"fallback_generation_service">>
                          /\ gen[g].trace = <<>>
                          /\ AnsweredByPlaceholder(g)

\* C2 witness: a request that started with the flag unset was answered by
\* the fallback with zero counts.
NotReadyFallbackWitness ==
    \E g \in GenThreads :
        /\ Done(g) /\ gen[g].use_rag /\ ~gen[g].ready
        /\ gen[g].trace = FallbackStages
        /\ gen[g].result.context_used = "zero_counts"

FallbackFailureGivesPlaceholder ==
    \A g \in GenThreads :
        (Done(g) /\ Occurs("fallback_generation_service", gen[g].errors)) =>
            /\ gen[g].result.is_valid = FALSE
            /\ gen[g].result.warnings = "generation_failed_reason"
            /\ gen[g].result.rag_workflow_used = FALSE
            /\ gen[g].result.kql_query = "error_comment"
            /\ gen[g].escaped = {}

\* C4 witness: a retrieval-path request whose fallback also failed.
FallbackFailureWitness ==
    \E g \in GenThreads :
        /\ Done(g) /\ gen[g].ready
        /\ Last(gen[g].errors) = "fallback_generation_service"

\* C5 as stated: initialize calls are single-flight, so at most one call at
\* a time is between its stats check and its flag write, where the index is
\* populated.
SingleFlightInitialization == Cardinality(Populating) <= 1

\* C6 as stated: a call with force_refresh = True issued while the
\* orchestrator is Ready takes it out of Ready (into Initializing), and a
\* generate request that arrives while such a call repopulates the index
\* is not served as Ready: it takes the fallback path.
RefreshLeavesReady ==
    [][/\ \A c \in InitCallers :
             (init_call(c, TRUE) /\ initialized) => ~initialized'
       /\ \A g \in GenThreads :
             (/\ gen_request(g, TRUE)
              /\ \E c \in InitCallers :
                    ini[c].force /\ ini[c].pc \in PopulationPcs)
             => gen'[g].pc = "fallback"]_vars

\* Some collection holds a record.
SomeFamilyNonEmpty ==
    \/ store.field_descriptions # {}
    \/ store.field_values # {}
    \/ store.schemas # {}
    \/ \E i \in GroundTruthIds : store.ground_truth_pairs[i] # "none"

\* Every collection holds a record.
EveryFamilyNonEmpty ==
    /\ store.field_descriptions # {}
    /\ store.field_values # {}
    /\ store.schemas # {}
    /\ \E i \in GroundTruthIds : store.ground_truth_pairs[i] # "none"

\* The step ends caller c's call without discovery, leaves the index as it
\* is, and leaves the orchestrator Ready.
InitNoOp(c) ==
    /\ store' = store
    /\ ini'[c].pc = "idle"
    /\ initialized'

\* C7 as stated: a call with force_refresh = False that finds the index
\* population non-empty does no discovery, adds no record and leaves the
\* orchestrator Ready.
NonEmptyIndexInitIsNoOp ==
    [][\A c \in InitCallers, d \in Discoveries :
          (init_check_stats(c, TRUE, d) /\ ~ini[c].force /\ SomeFamilyNonEmpty)
          => InitNoOp(c)]_vars

\* C7 amended: a call with force_refresh = False that finds the orchestrator
\* initialized, or that reads the counts and finds every one of the four
\* collections non-empty, does no discovery, adds no record and leaves the
\* orchestrator Ready.
PopulatedIndexInitIsNoOp ==
    [][\A c \in InitCallers :
          /\ (init_call(c, FALSE) /\ initialized) => InitNoOp(c)
          /\ \A d \in Discoveries :
                (init_check_stats(c, TRUE, d) /\ ~ini[c].force /\ EveryFamilyNonEmpty)
                => InitNoOp(c)]_vars

\* C7 witness: a call returned at the stats check over a populated index,
\* which still holds exactly one copy of each seed pair.
InitNoOpWitness ==
    \E c \in InitCallers :
        /\ ini[c].outcome = "already_populated"
        /\ initialized
        /\ EveryFamilyNonEmpty

LookupFailureDegradesOneList ==
    \A g \in GenThreads :
        (/\ Done(g) /\ gen[g].ready
         /\ Len(gen[g].errors) = 1
         /\ gen[g].errors[1] \in LookupSet)
        => /\ \A k \in 1..Len(Lookups) :
                 Lookups[k] # gen[g].errors[1] => Occurs(Lookups[k], gen[g].trace)
           /\ Occurs("refine_context", gen[g].trace)
           /\ gen[g].result.rag_workflow_used

\* The labels of FeedbackLabels that say the query was right.
Approving(user_feedback) ==
    user_feedback \in {<<"g","o","o","d">>, <<"G","o","o","d">>,
                       <<"C","O","R","R","E","C","T">>,
                       <<"a","c","c","u","r","a","t","e">>}

\* C10: add_feedback changes the index only when the label approves and a
\* corrected query is supplied, and then only the ground-truth collection;
\* it never raises and never writes the flag.
FeedbackWritesOnlyWhenApproved ==
    [][\A l \in FeedbackLabels, q \in CorrectedQueries :
          add_feedback(l, q) =>
             /\ store' # store =>
                   /\ Approving(l)
                   /\ q = "SecurityEvent | take 10"
                   /\ store'.field_descriptions = store.field_descriptions
                   /\ store'.field_values = store.field_values
                   /\ store'.schemas = store.schemas
             /\ initialized' = initialized
             /\ fb_raised' = FALSE]_vars

\* C10 witness: an approving feedback with a corrected query is stored in
\* the ground-truth collection.
FeedbackStoredWitness ==
    /\ store.ground_truth_pairs[0] = "feedback"
    /\ ~fb_raised

\* ------------------------------------------------ validator properties
\* The result of the first call of the followed validation.
FirstResult == val.first[1]

\* C11: validate_and_correct is idempotent on its text: validating the text
\* that a call returned, with the same table list, returns that text
\* unchanged.
ValidateIsIdempotent ==
    val.again # <<>> => val.again[1].text = FirstResult.text

\* The query that the followed validation was given.
RawQuery == val.kql_query

\* How often character ch occurs in text s.
Occurrences(s, ch) == Cardinality({i \in 1..Len(s) : CharAt(s, i) = ch})

\* Every closing parenthesis of s closes an opening one before it, and none
\* stays open.
Balanced(s) ==
    /\ Occurrences(s, "(") = Occurrences(s, ")")
    /\ \A k \in 1..Len(s) :
          Occurrences(Prefix(s, k), ")") <= Occurrences(Prefix(s, k), "(")

\* C12 as stated: a query whose parentheses are unbalanced, a closing one
\* before its opening one included, is never reported valid.
UnbalancedIsInvalid ==
    (val.first # <<>> /\ ~Balanced(RawQuery)) => ~FirstResult.is_valid

\* C12: a query with different numbers of opening and closing parentheses
\* is never reported valid.
UnequalParenthesisCountsAreInvalid ==
    (val.first # <<>> /\ Occurrences(RawQuery, "(") # Occurrences(RawQuery, ")"))
    => ~FirstResult.is_valid

\* C12 witness: a query with an unclosed parenthesis, and otherwise
\* acceptable, has been rejected.
UnclosedParenthesisWitness ==
    /\ val.first # <<>>
    /\ Occurrences(RawQuery, "(") > Occurrences(RawQuery, ")")
    /\ final_validation_unchecked(FirstResult.text)
    /\ ~FirstResult.is_valid

\* A line that leads with a table: an identifier, then nothing or a pipe.
LeadsWithTable(line) ==
    LET e == RunEnd(line, 1, WordChars)
    IN /\ CharAt(line, 1) \in Letters
       /\ strip(From(line, e)) = "" \/ startswith(strip(From(line, e)), "|")

\* The identifier at the head of text s.
LeadingIdentifier(s) == SubSeq(s, 1, RunEnd(s, 1, WordChars) - 1)

FirstLine(s) == split(s, "\n")[1]

ValidateIsDeterministic ==
    val.elsewhere # <<>> => val.elsewhere[1] = FirstResult

\* Text a can be turned into text b by at most k insertions, deletions and
\* substitutions of one character.
RECURSIVE WithinEdits(_, _, _)
WithinEdits(a, b, k) ==
    IF k < 0 THEN FALSE
    ELSE IF a = "" THEN Len(b) <= k
    ELSE IF b = "" THEN Len(a) <= k
    ELSE IF CharAt(a, 1) = CharAt(b, 1)
    THEN WithinEdits(From(a, 2), From(b, 2), k)
    ELSE \/ WithinEdits(From(a, 2), b, k - 1)
         \/ WithinEdits(a, From(b, 2), k - 1)
         \/ WithinEdits(From(a, 2), From(b, 2), k - 1)

\* The candidates that the three tiers allow for name n: those equal to it
\* without regard to case; failing that, those that contain it or that it
\* contains; failing that, those at the least edit distance, if that is at
\* most two.
TierCandidates(n, candidates) ==
    LET name == str_lower(n)
        exact == {c \in candidates : str_lower(c) = name}
        partial == {c \in candidates :
                       \/ Contains(str_lower(c), name)
                       \/ Contains(name, str_lower(c))}
        Near(k) == {c \in candidates : WithinEdits(name, str_lower(c), k)}
    IN IF exact # {} THEN exact
       ELSE IF partial # {} THEN partial
       ELSE IF Near(1) # {} THEN Near(1)
       ELSE Near(2)

\* The names that the followed validation matches against.
Candidates ==
    IF val.available_tables = <<>> THEN Elements(common_tables)
    ELSE Elements(val.available_tables)

\* The warning that reports the replacement of table name n by c.
CorrectionWarning(n, c) ==
    IF val.available_tables = <<>>
    THEN "Suggested table name correction: '" \o n \o "' -> '" \o c \o "'"
    ELSE "Corrected table name '" \o n \o "' to '" \o c \o "'"

\* C15: a table name that is not among the candidates is replaced by a
\* candidate of the first tier that has one (same name without regard to
\* case, substring in either direction, least edit distance of at most
\* two), with a warning that names both; it is left as it is when no tier
\* has a candidate.  'SecurityEven | where x' with ['SecurityEvent'] becomes
\* 'SecurityEvent | where x'.
ThreeTierTableMatch ==
    (val.first # <<>> /\ LeadsWithTable(FirstLine(RawQuery)))
    => LET n == LeadingIdentifier(RawQuery)
           corrected == LeadingIdentifier(FirstResult.text)
           allowed == TierCandidates(n, Candidates)
       IN /\ n \in Candidates => corrected = n
          /\ (n \notin Candidates /\ allowed = {}) =>
                /\ corrected = n
                /\ \A c \in Candidates :
                      ~Occurs(CorrectionWarning(n, c), FirstResult.warnings)
          /\ (n \notin Candidates /\ allowed # {}) =>
                /\ corrected \in allowed
                /\ Occurs(CorrectionWarning(n, corrected), FirstResult.warnings)
          /\ (RawQuery = "SecurityEven | where x"
              /\ val.available_tables = <<"SecurityEvent">>) =>
                FirstResult.text = "SecurityEvent | where x"

\* C15 witness: 'SecurityEven | where x' has been validated against
\* ['SecurityEvent'] and corrected, with the warning.
TableCorrectedWitness ==
    /\ val.first # <<>>
    /\ RawQuery = "SecurityEven | where x"
    /\ val.available_tables = <<"SecurityEvent">>
    /\ FirstResult.text = "SecurityEvent | where x"
    /\ Occurs("Corrected table name 'SecurityEven' to 'SecurityEvent'",
              FirstResult.warnings)

\* The unit letter of the canonical form for unit word u.
UnitLetter(u) ==
    IF u \in {"hour", "hours"} THEN "h"
    ELSE IF u \in {"minute", "minutes"} THEN "m"
    ELSE "d"

MissingTimeFilterWarning ==
    "Consider adding a TimeGenerated filter for better performance"

\* Query s filters on a time range: a where clause that compares with an
\* ago() expression.
HasTimeRangeFilter(s) ==
    /\ Contains(str_lower(s), "where")
    /\ Contains(str_lower(s), "ago")

\* C16 as stated: ago(N), ago(N days), ago(N hours) and ago(N minutes) come
\* out as ago(Nd), ago(Nh) and ago(Nm) with a correction warning, and the
\* missing-time-filter warning is given exactly when the query has no
\* time-range filter at all.
TimeFiltersNormalizedAndMissingOnesReported ==
    val.first # <<>> =>
       /\ \A n \in AgoNumbers, u \in AgoUnitWords, style \in AgoStyles :
             RawQuery = AgoQuery(n, u, style) =>
                /\ endswith(FirstResult.text,
                            " | where TimeGenerated > ago(" \o n \o UnitLetter(u) \o ")")
                /\ Occurs("Corrected time filter format", FirstResult.warnings)
       /\ Occurs(MissingTimeFilterWarning, FirstResult.warnings)
             <=> ~HasTimeRangeFilter(RawQuery)

\* C17 as stated: text in a fence with a language tag is reduced to the bare
\* query before any other stage, so that the result is the result for the
\* bare query and holds no fence and no tag.
FencedValidatesAsBare ==
    \A tag \in LanguageTags, body \in FencedBodies :
       (val.first # <<>> /\ RawQuery = Fenced(tag, body)) =>
          /\ FirstResult =
                validate_and_correct(body, val.available_tables, val.pool)
          /\ ~Contains(FirstResult.text, Fence)

\* ----------------------------------------------- complexity properties
\* The report of the followed query.
Report == cx.report[1]

\* The sum of the counts of an operations record.
OperationsTotal(operations) ==
    operations.filters + operations.projections + operations.aggregations
    + operations.joins + operations.unions + operations.sorts
    + operations.limits

\* The score is the sum of the counts of the kinds and is not negative, and
\* the impact is High above 5, Medium from 3 to 5, and Low otherwise.
ScoreIsSumAndBucketed ==
    cx.report # <<>> =>
       /\ Report.complexity_score = OperationsTotal(Report.operations)
       /\ Report.complexity_score >= 0
       /\ Report.performance_impact = "High" <=> Report.complexity_score > 5
       /\ Report.performance_impact = "Medium" <=>
             (Report.complexity_score > 2 /\ Report.complexity_score <= 5)
       /\ Report.performance_impact = "Low" <=> Report.complexity_score <= 2

\* C18: the complexity score is the sum of the per-kind operator counts, is
\* never negative, and never decreases when a recognized keyword is appended
\* to the query; the impact is High exactly when the score exceeds 5, Medium
\* exactly when it is in 3..5, and Low otherwise.
ComplexityScoreMonotoneAndBucketed ==
    /\ []ScoreIsSumAndBucketed
    /\ [][\A keyword \in RecognizedKeywords :
             append_keyword(keyword) =>
                cx'.report[1].complexity_score >= Report.complexity_score]_vars

\* C18 witness: keywords were appended to a query until its score exceeded 5
\* and its impact became High.
HighImpactWitness ==
    /\ cx.report # <<>>
    /\ cx.appended = MaxAppended
    /\ Report.complexity_score > 5
    /\ Report.performance_impact = "High"

\* -------------------------------------------------- refiner properties
\* The refined context of the followed request.
Refined == ref.refined[1]

\* The words of a text that count: lower-cased, split at whitespace, without
\* the stop words.
Tokens(text) == Elements(split_whitespace(str_lower(text))) \ stop_words

\* What the relevance of a similar text to the request must satisfy in any
\* case: it is the relevance of the request to the similar text, and it lies
\* between 0 and 1.
SymmetricAndBounded(pattern) ==
    LET score == pattern.relevance_score
        back == calculate_query_relevance(ref.natural_language,
                                          pattern.similar_nl)
    IN /\ score.num * back.den = back.num * score.den
       /\ score.den > 0
       /\ 0 <= score.num
       /\ score.num <= score.den

\* C19 as stated: the relevance score is symmetric, lies in [0,1], and is 1
\* whenever the two texts have the same tokens.
RelevanceOneForSameTokens ==
    ref.refined # <<>> =>
       \A k \in 1..Len(Refined.query_patterns) :
          LET pattern == Refined.query_patterns[k] IN
          /\ SymmetricAndBounded(pattern)
          /\ Tokens(pattern.similar_nl) = Tokens(ref.natural_language)
                => pattern.relevance_score.num = pattern.relevance_score.den

\* C19: the relevance score is symmetric, lies in [0,1], is 1 whenever the
\* two texts have the same tokens and have some, and is 0 when neither text
\* has a token.
RelevanceOneForSameNonEmptyTokens ==
    ref.refined # <<>> =>
       \A k \in 1..Len(Refined.query_patterns) :
          LET pattern == Refined.query_patterns[k]
              same == Tokens(pattern.similar_nl) = Tokens(ref.natural_language)
          IN /\ SymmetricAndBounded(pattern)
             /\ (same /\ Tokens(ref.natural_language) # {})
                   => pattern.relevance_score.num = pattern.relevance_score.den
             /\ (same /\ Tokens(ref.natural_language) = {})
                   => pattern.relevance_score.num = 0

\* C19 witness: of the similar texts of a request, one differs from it as a
\* text and has the same tokens, with score 1, and one shares some of its
\* tokens, with a score strictly between 0 and 1.
SameTokensWitness ==
    /\ ref.refined # <<>>
    /\ \E k \in 1..Len(Refined.query_patterns) :
          LET pattern == Refined.query_patterns[k] IN
          /\ pattern.similar_nl # ref.natural_language
          /\ Tokens(pattern.similar_nl) = Tokens(ref.natural_language)
          /\ Tokens(pattern.similar_nl) # {}
          /\ pattern.relevance_score.num = pattern.relevance_score.den
    /\ \E k \in 1..Len(Refined.query_patterns) :
          LET score == Refined.query_patterns[k].relevance_score IN
          0 < score.num /\ score.num < score.den

\* C20: the refined table list has at most 5 tables, in descending order of
\* priority score, and every refined table has at most 15 fields.
RefinedTablesCappedAndSorted ==
    ref.refined # <<>> =>
       LET tables == Refined.refined_tables IN
       /\ Len(tables) <= 5
       /\ \A i \in 1..Len(tables) : \A j \in i..Len(tables) :
             tables[i].priority_score >= tables[j].priority_score
       /\ \A i \in 1..Len(tables) : Len(tables[i].fields) <= 15

\* C20 witness: seven candidate tables, one of them with sixteen candidate
\* fields, were refined into five tables of different scores, one of them
\* with fifteen fields.
CapsReachedWitness ==
    /\ ref.refined # <<>>
    /\ Len(TableNamesFrom(ref.relevant_fields, 1, <<>>)) = 7
    /\ Len(FieldsOfTable(ref.relevant_fields, "SecurityEvent")) = 16
    /\ Len(Refined.refined_tables) = 5
    /\ Refined.refined_tables[1].priority_score
          > Refined.refined_tables[5].priority_score
    /\ \E i \in 1..5 : Len(Refined.refined_tables[i].fields) = 15

\* The candidate fields of a refined table, as the request brought them.
CandidatesOf(table) == FieldsOfTable(ref.relevant_fields, table.table_name)

IsTimeAnchor(field) == str_lower(field.field_name) = "timegenerated"

\* C21 as stated: a refined table whose candidate fields include the
\* time-anchor field has it at position one of its fields, whatever its
\* score and however many other candidates the table has.
TimeAnchorAlwaysFirst ==
    ref.refined # <<>> =>
       \A i \in 1..Len(Refined.refined_tables) :
          LET table == Refined.refined_tables[i]
              candidates == CandidatesOf(table)
          IN (\E k \in 1..Len(candidates) : IsTimeAnchor(candidates[k]))
                => /\ table.fields # <<>>
                   /\ IsTimeAnchor(table.fields[1])


\* The request of the followed refinement, as the scoring reads it.
RequestLower == str_lower(ref.natural_language)

\* The candidate fields of a table whose name is a substring of the request.
MentionedCandidates(table) ==
    LET candidates == CandidatesOf(table)
    IN {k \in 1..Len(candidates) :
           Contains(RequestLower, str_lower(candidates[k].field_name))}

\* The candidate fields of a table that are on the priority list.
ListedCandidates(table) ==
    LET candidates == CandidatesOf(table)
    IN {k \in 1..Len(candidates) :
           \E i \in 1..Len(priority_fields) :
              str_lower(priority_fields[i]) = str_lower(candidates[k].field_name)}

\* The parts of a table's score, in halves, with a given weight for each
\* candidate field that the request mentions.
TablePriorityParts(table, per_mentioned) ==
    LET name == str_lower(table.table_name)
    IN (IF \E keyword \in {"security", "event", "log", "audit"} :
              Contains(name, keyword)
        THEN 2 ELSE 0)
       + (IF Contains(RequestLower, name) THEN 4 ELSE 0)
       + per_mentioned * Cardinality(MentionedCandidates(table))
       + Cardinality(ListedCandidates(table))
       + (IF name \in {"securityevent", "syslog", "event", "azureactivity",
                       "signinlogs"}
          THEN 1 ELSE 0)

\* C23 as stated: the score of a table is 1.0 for a log-domain keyword in
\* its name, 2.0 for its name in the request, 0.5 for each candidate field
\* the request mentions, 0.5 for each candidate field on the priority list and
\* 0.5 for a common table.
TablePriorityHalfPerMentionedField ==
    ref.refined # <<>> =>
       \A i \in 1..Len(Refined.refined_tables) :
          Refined.refined_tables[i].priority_score
             = TablePriorityParts(Refined.refined_tables[i], 1)

\* C23, amended: the score of a table is 1.0 for a log-domain keyword in its
\* name, 2.0 for its name in the request, 1.5 for each candidate field the
\* request mentions, 0.5 for each candidate field on the priority list and
\* 0.5 for a common table.
TablePriorityOneAndAHalfPerMentionedField ==
    ref.refined # <<>> =>
       \A i \in 1..Len(Refined.refined_tables) :
          Refined.refined_tables[i].priority_score
             = TablePriorityParts(Refined.refined_tables[i], 3)

\* A refined table named in the request, with two or more candidate fields
\* that the request mentions and some that it does not.
MentionedFieldsWitness ==
    /\ ref.refined # <<>>
    /\ \E i \in 1..Len(Refined.refined_tables) :
          LET table == Refined.refined_tables[i]
          IN /\ Contains(RequestLower, str_lower(table.table_name))
             /\ Cardinality(MentionedCandidates(table)) >= 2
             /\ Cardinality(MentionedCandidates(table))
                   < Len(CandidatesOf(table))
             /\ ListedCandidates(table) # {}


\* The selected fields of a refined table that are not the time anchor, in
\* their order.
AfterTimeAnchor(table) ==
    SelectSeq(table.fields, LAMBDA field : ~IsTimeAnchor(field))

IsListed(field) ==
    \E i \in 1..Len(priority_fields) :
       str_lower(priority_fields[i]) = str_lower(field.field_name)

DescendingScores(fields) ==
    \A i, j \in 1..Len(fields) :
       i < j => fields[i].priority_score >= fields[j].priority_score

\* C24 as stated: in the field list of a refined table, the fields after the
\* time anchor are in descending score order, at most 15 fields in all, and
\* every selected field of the priority list is ahead of every selected field
\* that is not on the list.
PriorityListFieldsAheadOfOthers ==
    ref.refined # <<>> =>
       \A t \in 1..Len(Refined.refined_tables) :
          LET fields == AfterTimeAnchor(Refined.refined_tables[t])
          IN /\ Len(Refined.refined_tables[t].fields) <= max_fields_per_table
             /\ DescendingScores(fields)
             /\ \A i, j \in 1..Len(fields) :
                   IsListed(fields[i]) /\ ~IsListed(fields[j]) => i < j

\* C24, amended: in the field list of a refined table, the fields after the
\* time anchor are in descending score order, at most 15 fields in all; a
\* field of the priority list is ahead of a field that is not on the list
\* only when its score is not lower, and among equal scores the candidates
\* keep their order of arrival.
FieldsInDescendingScoreOrder ==
    ref.refined # <<>> =>
       \A t \in 1..Len(Refined.refined_tables) :
          LET table == Refined.refined_tables[t]
              fields == AfterTimeAnchor(table)
              candidates == CandidatesOf(table)
              Arrival(field) ==
                 CHOOSE k \in 1..Len(candidates) :
                    candidates[k].field_name = field.field_name
          IN /\ Len(table.fields) <= max_fields_per_table
             /\ DescendingScores(fields)
             /\ \A i, j \in 1..Len(fields) :
                   /\ i < j
                   /\ fields[i].priority_score = fields[j].priority_score
                   => Arrival(fields[i]) < Arrival(fields[j])

\* A refined table with the time anchor first, where a field that is not on
\* the priority list is selected ahead of a field of the list with a lower
\* score.
UnlistedFieldAheadWitness ==
    /\ ref.refined # <<>>
    /\ \E t \in 1..Len(Refined.refined_tables) :
          LET table == Refined.refined_tables[t]
              fields == AfterTimeAnchor(table)
          IN /\ table.fields # <<>>
             /\ IsTimeAnchor(table.fields[1])
             /\ \E i, j \in 1..Len(fields) :
                   /\ i < j
                   /\ ~IsListed(fields[i])
                   /\ IsListed(fields[j])
                   /\ fields[i].priority_score > fields[j].priority_score


\* The value sets that the request brought for a refined table, in their
\* order of arrival.
ValueSetsOf(table) ==
    SelectSeq(ref.relevant_values,
              LAMBDA value_info : value_info.table_name = table.table_name)

\* A sample matches when its lower-cased text contains a word of the
\* lower-cased request that is longer than two characters.
SampleMatches(sample) ==
    LET words == split_whitespace(RequestLower)
    IN \E k \in 1..Len(words) :
          Len(words[k]) > 2 /\ Contains(str_lower(sample), words[k])

MatchingSamples(samples) == SelectSeq(samples, SampleMatches)

FirstFive(samples) == SubSeq(samples, 1, IF Len(samples) < 5 THEN Len(samples) ELSE 5)

\* The value sets of a table that are emitted, by their numbers: one with a
\* matching sample among its first five is emitted, another one only while
\* fewer than `fill` sets have been emitted, and none after five.
EmittedWith(emitted, value_info, n, fill) ==
    IF /\ Cardinality(emitted) < 5
       /\ \/ MatchingSamples(FirstFive(value_info.sample_values)) # <<>>
          \/ Cardinality(emitted) < fill
    THEN emitted \cup {n}
    ELSE emitted

EmittedSets(value_sets, fill) ==
    LET Upto[n \in 0..Len(value_sets)] ==
           IF n = 0 THEN {}
           ELSE EmittedWith(Upto[n - 1], value_sets[n], n, fill)
    IN Upto[Len(value_sets)]

\* The number of the r-th emitted value set.
NumberOfEmitted(emitted, r) ==
    CHOOSE n \in emitted : Cardinality({m \in emitted : m <= n}) = r

\* C25 as stated: of every value set of a refined table, up to five sets for
\* a table, exactly the samples that match the request are kept, or the first
\* five samples when none matches; a value set with a sample is never emitted
\* without samples and is never dropped because none of its samples matched.
ValueSetsKeepMatchingSamplesAndAreNeverDropped ==
    ref.refined # <<>> =>
       \A t \in 1..Len(Refined.refined_tables) :
          LET table == Refined.refined_tables[t]
              value_sets == ValueSetsOf(table)
              emitted == EmittedSets(value_sets, 5)
          IN /\ Len(table.sample_values) = Cardinality(emitted)
             /\ \A r \in 1..Len(table.sample_values) :
                   LET value_info == value_sets[NumberOfEmitted(emitted, r)]
                       matching == MatchingSamples(value_info.sample_values)
                   IN /\ table.sample_values[r].field_name = value_info.field_name
                      /\ table.sample_values[r].sample_values
                            = IF matching # <<>> THEN matching
                              ELSE FirstFive(value_info.sample_values)
                      /\ value_info.sample_values # <<>>
                            => table.sample_values[r].sample_values # <<>>

\* C25, amended: a value set of a refined table is emitted when one of its
\* first five samples matches the request, or when fewer than three value sets
\* of the table have been emitted before it, and in no case after five; an
\* emitted set holds the matching ones of its first five samples, or its first
\* five samples when none of them matches, and is without samples only when
\* the value set has none.
ValueSetsKeepMatchingOfFirstFiveAndThreeFill ==
    ref.refined # <<>> =>
       \A t \in 1..Len(Refined.refined_tables) :
          LET table == Refined.refined_tables[t]
              value_sets == ValueSetsOf(table)
              emitted == EmittedSets(value_sets, 3)
          IN /\ Len(table.sample_values) = Cardinality(emitted)
             /\ \A r \in 1..Len(table.sample_values) :
                   LET value_info == value_sets[NumberOfEmitted(emitted, r)]
                       matching == MatchingSamples(FirstFive(value_info.sample_values))
                   IN /\ table.sample_values[r].field_name = value_info.field_name
                      /\ table.sample_values[r].sample_values
                            = IF matching # <<>> THEN matching
                              ELSE FirstFive(value_info.sample_values)
                      /\ value_info.sample_values # <<>>
                            => table.sample_values[r].sample_values # <<>>

\* A refined table with five emitted value sets, of which one holds only its
\* matching samples and one, none of its samples matching, its first samples,
\* while a value set with samples, none matching, is dropped after three
\* emitted ones and a further matching one is dropped after five.
ValueSetsWitness ==
    /\ ref.refined # <<>>
    /\ \E t \in 1..Len(Refined.refined_tables) :
          LET table == Refined.refined_tables[t]
              value_sets == ValueSetsOf(table)
              Emitted(n) == \E r \in 1..Len(table.sample_values) :
                               table.sample_values[r].field_name
                                  = value_sets[n].field_name
          IN /\ Len(table.sample_values) = 5
             /\ \E n \in 1..Len(value_sets) :
                   /\ Emitted(n)
                   /\ MatchingSamples(value_sets[n].sample_values) # <<>>
                   /\ MatchingSamples(value_sets[n].sample_values)
                         # value_sets[n].sample_values
             /\ \E n \in 1..Len(value_sets) :
                   /\ Emitted(n)
                   /\ value_sets[n].sample_values # <<>>
                   /\ MatchingSamples(value_sets[n].sample_values) = <<>>
             /\ \E n \in 1..Len(value_sets) :
                   /\ ~Emitted(n)
                   /\ value_sets[n].sample_values # <<>>
                   /\ MatchingSamples(value_sets[n].sample_values) = <<>>
                   /\ \E m \in (n + 1)..Len(value_sets) : Emitted(m)
             /\ \E n \in 1..Len(value_sets) :
                   /\ ~Emitted(n)
                   /\ MatchingSamples(FirstFive(value_sets[n].sample_values)) # <<>>


\* The text that the table-name stage of the followed call receives, in
\* lines.
TableStageLines ==
    split(check_basic_syntax(remove_markdown(strip(val.kql_query))).text, "\n")

\* The first tokens of the lines that are neither piped nor comments and
\* that the table pattern matches.
TableTokens ==
    {TableOfLine(strip(TableStageLines[k])) : k \in 1..Len(TableStageLines)}
       \ {""}

\* The table pool in use: the allowlist, or the common tables without one.
PoolInUse ==
    IF val.available_tables # <<>> THEN Elements(val.available_tables)
    ELSE Elements(common_tables)

\* A warning about the table token: one that names a correction, or the
\* one that reports the token as not found.
WarnsAbout(warning, token) ==
    \/ startswith(warning, "Corrected table name '" \o token \o "' to '")
    \/ startswith(warning, "Suggested table name correction: '" \o token \o "' -> '")
    \/ warning = "Table '" \o token \o "' not found in workspace"

\* C26: whenever the first token of a non-piped, non-comment line is absent
\* from the table pool in use, the result carries a warning for it, naming
\* the correction or reporting the table as not found.
EveryUnknownTableIsWarnedAbout ==
    val.first # <<>> =>
       \A token \in TableTokens \ PoolInUse :
          \E k \in 1..Len(FirstResult.warnings) :
             WarnsAbout(FirstResult.warnings[k], token)


\* The text that the common-mistake stage of the followed call receives.
CommonMistakeStageInput ==
    check_time_filters(
       check_table_names(
          check_basic_syntax(remove_markdown(strip(val.kql_query))).text,
          val.available_tables, val.pool).text).text

\* The number of the wrong function name that stands at position i of the
\* text as a name of its own, 0 for none: a name that is the tail of a longer
\* name, as len( is of strlen(, is not a wrong name.
WrongNameAt(s, i) ==
    IF CharAt(s, i - 1) \in WordChars THEN 0
    ELSE LET hits == {k \in 1..Len(function_fixes) :
                         StartsWithAtCI(s, i, function_fixes[k][1])}
         IN IF hits = {} THEN 0 ELSE Least(hits)

\* The text with each wrong function name replaced by its listed equivalent.
WrongNamesReplaced(s) ==
    SubFrom(s, 1,
       [i \in 1..Len(s) |->
           IF WrongNameAt(s, i) = 0 THEN 0
           ELSE i + Len(function_fixes[WrongNameAt(s, i)][1])],
       [i \in 1..Len(s) |->
           IF WrongNameAt(s, i) = 0 THEN ""
           ELSE function_fixes[WrongNameAt(s, i)][2]])

\* The text with each single-equals comparison of a field with a string
\* literal turned into a double-equals comparison.
ComparisonsReplaced(s) ==
    IF re_search(s, StringComparisonEnd)
    THEN re_sub(s, StringComparisonEnd, StringComparisonRepl)
    ELSE s

\* C27: the common-mistake stage replaces each wrong function name, whatever
\* its case, by exactly its listed equivalent, and each single-equals
\* comparison with a string literal by a double-equals one; names that are
\* already correct and comparisons that already use == stay as they are, and
\* a text is changed only with a warning.
WrongNamesReplacedByTheirEquivalents ==
    val.first # <<>> =>
       /\ FirstResult.text
             = ComparisonsReplaced(WrongNamesReplaced(CommonMistakeStageInput))
       /\ FirstResult.text # CommonMistakeStageInput
             => \E k \in 1..Len(FirstResult.warnings) :
                   \/ startswith(FirstResult.warnings[k], "Corrected function name: ")
                   \/ startswith(FirstResult.warnings[k], "Changed assignment operator")


\* The text that the table-name stage of the followed call receives and the
\* text that it returns, in lines.
TableStageInput ==
    check_basic_syntax(remove_markdown(strip(val.kql_query))).text

TableStageOutput ==
    check_table_names(TableStageInput, val.available_tables, val.pool)

\* The candidate that a warning of the table-name stage names for a token,
\* "" when the warning is not a correction of the token.
CandidateIn(warning, token) ==
    LET corrected == "Corrected table name '" \o token \o "' to '"
        suggested == "Suggested table name correction: '" \o token \o "' -> '"
    IN IF startswith(warning, corrected)
       THEN SubSeq(warning, Len(corrected) + 1, Len(warning) - 1)
       ELSE IF startswith(warning, suggested)
       THEN SubSeq(warning, Len(suggested) + 1, Len(warning) - 1)
       ELSE ""

\* The candidate that the stage chose for the table token of a line, "" when
\* the token was not corrected.
ChosenFor(token) ==
    LET warnings == TableStageOutput.warnings
        hits == {k \in 1..Len(warnings) : CandidateIn(warnings[k], token) # ""}
    IN IF token = "" \/ hits = {} THEN ""
       ELSE CandidateIn(warnings[Least(hits)], token)

\* A line with its table token replaced by the candidate chosen for it, the
\* rest of the line as it was; a line without a corrected token as it was.
LineCorrected(line) ==
    LET stripped == strip(line)
        token == IF stripped = "" \/ startswith(stripped, "//")
                    \/ startswith(stripped, "|")
                 THEN "" ELSE TableOfLine(stripped)
    IN IF ChosenFor(token) = "" THEN line
       ELSE replace_first(line, token, ChosenFor(token))

\* C29: a table-name correction changes the offending table token only:
\* every line of the query without a corrected token is unchanged, comment
\* lines included, and a corrected line is the line it was with the chosen
\* candidate in the place of the token.
CorrectionChangesOnlyTheTableToken ==
    val.first # <<>> =>
       LET before == split(TableStageInput, "\n")
           after == split(TableStageOutput.text, "\n")
       IN /\ Len(after) = Len(before)
          /\ \A k \in 1..Len(before) : after[k] = LineCorrected(before[k])


\* A fence-free query of one line: a table identifier piped to an operator
\* of the language, with balanced parentheses.
TablePipedToOperator(query) ==
    /\ ~Contains(query, Fence)
    /\ ~Contains(query, "\n")
    /\ TableOfLine(query) # ""
    /\ \E operator \in kql_operators \cup {"count"} :
          Contains(query, " | " \o operator)
    /\ str_count(query, "(") = str_count(query, ")")

\* C22: nl_to_kql returns the query text of the Generation Service: a
\* fence-free query that is a table identifier piped to an operator, as
\* 'StormEvents | count', is returned exactly as the service produced it, on
\* the fallback path (no allowlist) as on the others.
NlToKqlReturnsGeneratedText ==
    (/\ val.returned # <<>>
     /\ TablePipedToOperator(val.kql_query))
    => val.returned[1] = val.kql_query


\* The ids of the ground-truth collection that hold a pair, and those that
\* hold a seed pair.
StoredPairs(s) == {i \in GroundTruthIds : s.ground_truth_pairs[i] # "none"}

StoredSeeds(s) == {i \in GroundTruthIds : s.ground_truth_pairs[i] = "seed"}

\* C28: the ground-truth collection only grows, and no new pair takes the id
\* of a stored one: a write of the collection keeps every pair stored before
\* it, an accepted feedback adds one pair to them, and the seed step of an
\* initialize call leaves all the seed pairs stored beside them.
GroundTruthGrowsWithoutCollision ==
    [][store'.ground_truth_pairs # store.ground_truth_pairs =>
          /\ \A i \in StoredPairs(store) :
                store'.ground_truth_pairs[i] = store.ground_truth_pairs[i]
          /\ (\E l \in FeedbackLabels, q \in CorrectedQueries : add_feedback(l, q))
                => Cardinality(StoredPairs(store'))
                      = Cardinality(StoredPairs(store)) + 1
          /\ (\E c \in InitCallers : init_seeds(c))
                => Cardinality(StoredSeeds(store')) = NumSeeds]_vars


\* An initialize call of caller c ends with this step.
InitCallEnds(c) == ini[c].pc # "idle" /\ ini'[c].pc = "idle"

\* The call of caller c ends at line 38: it was started without force_refresh
\* and finds a record in every collection.
EndsOnPopulatedIndex(c) ==
    /\ ini[c].pc = "stats"
    /\ InitCallEnds(c)
    /\ ~ini[c].force
    /\ store.field_descriptions # {}
    /\ store.field_values # {}
    /\ store.schemas # {}
    /\ StoredPairs(store) # {}

\* The call of caller c ends after its seed step, the three families loaded
\* before it and a pair stored under every seed id.
EndsAfterSeeds(c) ==
    /\ ini[c].pc = "seeds"
    /\ InitCallEnds(c)
    /\ StoredPairs(store') = GroundTruthIds

\* C30: the initialized flag becomes true only with the last step of an
\* initialize call that found the index populated or that loaded the
\* families and then the seed pairs; the step that ends an initialize call
\* in any other way, which is an error, does not write the flag.
FlagSetOnlyByCompletedInitialize ==
    [][/\ (~initialized /\ initialized')
             => \E c \in InitCallers :
                   EndsOnPopulatedIndex(c) \/ EndsAfterSeeds(c)
       /\ \A c \in InitCallers :
             (/\ InitCallEnds(c)
              /\ ~EndsOnPopulatedIndex(c)
              /\ ~EndsAfterSeeds(c))
             => initialized' = initialized]_vars

\* C30 witness: the orchestrator is initialized over an index that one
\* initialize call left half loaded, ending in an error without setting the
\* flag, and that a later call completed with the seed pairs.
InitializedAfterFailedCallWitness ==
    /\ initialized
    /\ \A c \in InitCallers : ini[c].pc = "idle"
    /\ store.field_descriptions # {}
    /\ store.field_values = {}
    /\ StoredPairs(store) = GroundTruthIds
====
